---- MODULE Spec2Model ----
(***************************************************************************)
(* AOL-Core control plane: event store ring, service registry, health      *)
(* supervisor and circuit breakers, modelled from the Python sources.      *)
(***************************************************************************)
EXTENDS Integers, Sequences, FiniteSets, TLC

VARIABLES
    \* ---- EventStore (infrastructure/aol-core/event_store.py)
    events,         \* EventStore.events, the bounded list
    store_lock,     \* EventStore.lock: "free" or the caller holding it
    ae_pc,          \* position of each add_event caller
    ae_event,       \* the Event each caller is adding
    next_event_id,  \* source of fresh event_id values (uuid4 / timestamps)
    history,        \* ghost: every event ever appended, in append order
    \* ---- ServiceRegistry (infrastructure/aol-core/registry/service_registry.py)
    services,       \* ServiceRegistry.services: insertion-ordered dict name -> list
    inst,           \* the ServiceInstance objects, by service_id
    next_id,        \* source of fresh service_id values (uuid4)
    last_op,        \* ghost: the last registry call, its arguments and result
    get_run,        \* ghost: results of the get_service calls since the last mutation
    live_ids,       \* ghost: ids registered and not yet deregistered
    seq_clean,      \* ghost: every register so far had a valid manifest and
                    \* no same-host port collision
    \* ---- HealthManager (infrastructure/aol-core/health/health_manager.py)
    previous_statuses,  \* HealthManager.previous_statuses: service_id -> status
    sweep_pc,           \* "idle" (sleeping) or "probing" (awaiting a probe)
    sweep_snapshot,     \* the dict list_services() returned to the sweep
    sweep_pos,          \* <<entry, index>> of the instance being probed
    probe_inst,         \* service_id of the instance being probed
    probe_old,          \* old_status, read before the probe was sent
    last_probe,         \* ghost: the last completed probe
    \* ---- CircuitBreaker and ToolExecutor.execute (sidecar/sidecar.py)
    now,                \* datetime.now(), in seconds
    cb_state,           \* CircuitBreaker.state
    failure_count,      \* CircuitBreaker.failure_count
    success_count,      \* CircuitBreaker.success_count
    last_failure_time,  \* CircuitBreaker.last_failure_time: <<>> for None, else <<t>>
    cb_inflight,        \* execute calls admitted and awaiting their response
    cb_last,            \* ghost: the last breaker call and the state it found
    opened_at,          \* ghost: when the circuit last became open
    half_open_successes, \* ghost: successes recorded since half_open was entered
    probe_pending,      \* ghost: a call was admitted out of open and no call
                        \* has recorded a verdict since
    \* ---- GRPCRouter (infrastructure/aol-core/router/grpc_router.py)
    queue,              \* AsyncRequestQueue.queue: request ids, oldest first
    in_flight,          \* AsyncRequestQueue.in_flight: its keys
    response_futures,   \* AsyncRequestQueue.response_futures: its keys
    future,             \* the Future of each request: its state
    request,            \* the RouteRequest objects, by request_id
    next_request,       \* source of fresh request_id values (uuid4)
    rt_pc,              \* position of each route_async caller
    rt_req,             \* the request each caller is waiting for
    w_pc,               \* position of each worker (_process_requests)
    w_req,              \* the request each suspended worker is routing
    w_inst,             \* the instance_id each suspended worker is routing to,
                        \* <<>> when it is not suspended
    instance_metrics,   \* ServiceLoadBalancer.instance_metrics
    delivered,          \* ghost: what route_async returned, by request_id
    rq_log,             \* ghost: per request, the attempts made, metrics
                        \* updates and route_called events
    last_route,         \* ghost: the last attempt a worker made
    \* ---- EventBus and PubSubChannel (infrastructure/aol-core/event_store.py)
    ch_subs,            \* PubSubChannel.subscribers of each channel: an
                        \* insertion-ordered dict subscriber_id -> Queue
    ch_lock,            \* PubSubChannel.lock of each channel: "free" or holder
    sub_queue,          \* the items of each asyncio.Queue ever created
    next_q,             \* source of fresh Queue objects
    event_handlers,     \* EventBus.event_handlers: event type -> list
    ae_chans,           \* the channels each add_event caller has still to
                        \* publish to, the current one first
    pub_idx,            \* position of each publisher in subscribers.items()
    pub_dead,           \* dead_subscribers of each publisher
    pub_done,           \* ghost: subscribers whose put has succeeded
    put_log,            \* ghost: every event put on each Queue, in put order
    bus_last,           \* ghost: per caller, the dispatch and the channels
                        \* of its last add_event
    sub_ret,            \* ghost: per channel and subscriber id, the Queues
                        \* (and the number of puts each had seen) that
                        \* the last two subscribe calls returned since the
                        \* id was last removed from the channel
    \* ---- EventStore.get_events
    ge_last,            \* ghost: the last get_events call: its arguments,
                        \* the list it read and the list it returned
    \* ---- EventStore credit assignment (infrastructure/aol-core/event_store.py)
    workflow_contributions, \* workflow id -> list of AgentContribution
    active_workflows,   \* workflow id -> its record, or NoWorkflow
    es_metrics,         \* EventStore.agent_metrics
    sh_game,            \* the value function handed to record_contribution
                        \* and to the calculator, and its agent set
    sh_phi,             \* ghost: the values calculate_marginal_contribution
                        \* returned for the game's agent set
    recorded,           \* ghost: workflow id -> the record_contribution calls
                        \* since the workflow's last restart
    credit_last,        \* ghost: the last credit operation and its outcome
    \* ---- DeliberationManager, LazyAgentDetector, HealthManager
    \*      (infrastructure/aol-core/health/health_manager.py)
    utcnow,             \* datetime.utcnow(), in seconds
    restart_history,    \* DeliberationManager.restart_history
    hm_metrics,         \* HealthManager.agent_metrics
    agent_history,      \* LazyAgentDetector.agent_history
    workflow_health,    \* HealthManager.workflow_health
    advances,           \* number of clock advances
    ticks,              \* number of health-check iterations
    \* ---- WorkflowGraph and WorkflowExecutor
    \* (infrastructure/aol-core/workflow/workflow_graph.py)
    g_nodes,            \* WorkflowGraph.nodes besides __start__ and __end__
    g_edges,            \* the edges in the order add_edge was called
    ex_last,            \* ghost: the last execute call and what it did
    \* ---- a caller of ServiceRegistry.list_services
    ls_ret,             \* the dict a list_services call returned
    ls_frozen,          \* the instances only that dict still refers to
    ls_at               \* ghost: what the dict showed when it was returned

storeVars == <<events, store_lock, ae_pc, ae_event, next_event_id, history>>
regVars   == <<services, inst, next_id>>
regGhost  == <<last_op, get_run, live_ids, seq_clean>>
healthVars == <<previous_statuses, sweep_pc, sweep_snapshot, sweep_pos,
                probe_inst, probe_old, last_probe>>
cbVars == <<now, cb_state, failure_count, success_count, last_failure_time,
            cb_inflight, cb_last, opened_at, half_open_successes, probe_pending>>

routerVars == <<queue, in_flight, response_futures, future, request,
                next_request, rt_pc, rt_req, w_pc, w_req, w_inst,
                instance_metrics, delivered, rq_log, last_route>>

busVars == <<ch_subs, ch_lock, sub_queue, next_q, event_handlers, ae_chans,
             pub_idx, pub_dead, pub_done, put_log, bus_last, sub_ret>>

queryVars == <<ge_last>>

creditVars == <<workflow_contributions, active_workflows, es_metrics, sh_game,
                sh_phi, recorded, credit_last>>

hmVars == <<utcnow, restart_history, hm_metrics, agent_history,
            workflow_health, advances, ticks>>

wfVars == <<g_nodes, g_edges, ex_last>>
snapVars == <<ls_ret, ls_frozen, ls_at>>

None == "none"

\* ------------------------------------------------------------------ bounds
MaxAppends == 5
MaxIds == 2
MaxGetRun == 2
MaxHistory == 4
MaxInFlight == 2
MaxFailureCount == 7
MaxDays == 1
MaxSlots == 3
MaxRequests == 2
MaxRaises == 4
MaxBusEvents == 2
MaxQueues == 2
MaxHandlers == 2
MaxLimit == 2
MaxValue == 2
MaxContribs == 3
MaxAdvances == 7
MaxTicks == 2
MaxRestartContribs == 1
MaxEdges == 5

\* max_events is a constructor parameter (default 1000); the ring is modelled
\* with a small capacity.
max_events == 3

\* =========================================================================
\* EventStore
\* =========================================================================
Callers == {"c1", "c2"}
EventTypes == {"route_called", "service_registered"}

MkEvent(id, type, name, sid, old, new) ==
    [event_id |-> id, event_type |-> type, service_name |-> name,
     service_id |-> sid, old_status |-> old, new_status |-> new]

\* s[-n:] for n >= 1
LastN(s, n) ==
    IF Len(s) <= n THEN s ELSE SubSeq(s, Len(s) - n + 1, Len(s))

\* mutant: the trim keeps one event too few
RingAppendShort(evs, e) ==
    LET a == Append(evs, e)
    IN  IF Len(a) > max_events THEN LastN(a, max_events - 1) ELSE a

\* the critical section of add_event: append, then keep the last max_events
RingAppend(evs, e) ==
    LET a == Append(evs, e)
    IN  IF Len(a) > max_events THEN LastN(a, max_events) ELSE a

\* a caller builds an Event and calls add_event
AddEventCall(c, type) ==
    /\ ae_pc[c] = "idle"
    /\ next_event_id <= MaxAppends
    /\ ae_event' = [ae_event EXCEPT ![c] =
                        MkEvent(next_event_id, type, None, None, None, None)]
    /\ next_event_id' = next_event_id + 1
    /\ ae_pc' = [ae_pc EXCEPT ![c] = "acquire"]
    /\ UNCHANGED <<events, store_lock, history>>

\* async with self.lock
AddEventAcquire(c) ==
    /\ ae_pc[c] = "acquire"
    /\ store_lock = "free"
    /\ store_lock' = c
    /\ ae_pc' = [ae_pc EXCEPT ![c] = "locked"]
    /\ UNCHANGED <<events, ae_event, next_event_id, history>>

\* mutant: the block is not left, the dispatch and the publications run
\* inside it
AddEventAppendHolding(c) ==
    /\ ae_pc[c] = "locked"
    /\ store_lock = c
    /\ events' = RingAppend(events, ae_event[c])
    /\ history' = Append(history, ae_event[c])
    /\ store_lock' = store_lock
    /\ ae_pc' = [ae_pc EXCEPT ![c] = "publish"]
    /\ UNCHANGED <<ae_event, next_event_id>>

\* the body of the lock: append, trim; leaving the block releases the lock
AddEventAppend(c) ==
    /\ ae_pc[c] = "locked"
    /\ store_lock = c
    /\ events' = RingAppend(events, ae_event[c])
    /\ history' = Append(history, ae_event[c])
    /\ store_lock' = "free"
    /\ ae_pc' = [ae_pc EXCEPT ![c] = "publish"]
    /\ UNCHANGED <<ae_event, next_event_id>>

\* dispatch to the bus and publish to the channels, outside the lock
AddEventPublish(c) ==
    /\ ae_pc[c] = "publish"
    /\ ae_pc' = [ae_pc EXCEPT ![c] = "idle"]
    /\ ae_event' = [ae_event EXCEPT ![c] = None]
    /\ UNCHANGED <<events, store_lock, next_event_id, history>>

StoreInit ==
    /\ events = <<>>
    /\ store_lock = "free"
    /\ ae_pc = [c \in Callers |-> "idle"]
    /\ ae_event = [c \in Callers |-> None]
    /\ next_event_id = 1
    /\ history = <<>>

\* =========================================================================
\* ServiceRegistry
\* =========================================================================
Names == {"svc-a", "svc-b"}
Hosts == {"h1", "h2"}
\* <<grpc_port, health_port, metrics_port>>; the third shares only its
\* health port with the first
PortTriples == {<<1, 1, 1>>, <<2, 2, 2>>, <<3, 1, 3>>}
RequiredFields == {"kind", "apiVersion", "metadata", "spec"}
Manifests == {RequiredFields, RequiredFields \ {"spec"}}
Statuses == {"starting", "healthy", "unhealthy"}

MkInstance(name, host, ports, manifest, status, id) ==
    [name |-> name, host |-> host, grpc_port |-> ports[1],
     health_port |-> ports[2], metrics_port |-> ports[3],
     manifest |-> manifest, status |-> status, service_id |-> id]

\* ---- the dict, as a sequence of [name, list] entries in insertion order
KeySet(svcs) == {svcs[i].name : i \in 1..Len(svcs)}
KeyIndex(svcs, n) == CHOOSE i \in 1..Len(svcs) : svcs[i].name = n
GetList(svcs, n) == IF n \in KeySet(svcs) THEN svcs[KeyIndex(svcs, n)].list ELSE <<>>
SetList(svcs, n, l) ==
    IF n \in KeySet(svcs)
    THEN [svcs EXCEPT ![KeyIndex(svcs, n)].list = l]
    ELSE Append(svcs, [name |-> n, list |-> l])

\* [s for s in l if P(s)]
RECURSIVE FilterSeq(_, _)
FilterSeq(l, keep) ==
    IF l = <<>> THEN <<>>
    ELSE IF Head(l) \in keep THEN <<Head(l)>> \o FilterSeq(Tail(l), keep)
         ELSE FilterSeq(Tail(l), keep)

SeqRange(l) == {l[i] : i \in 1..Len(l)}

\* every id held in some list of the dict
AllIds(svcs) == UNION {SeqRange(svcs[i].list) : i \in 1..Len(svcs)}

\* _has_port_conflict: any instance of any service, host not compared
HasPortConflict(svcs, objs, x) ==
    \E id \in AllIds(svcs) :
        \/ objs[id].grpc_port = x.grpc_port
        \/ objs[id].health_port = x.health_port
        \/ objs[id].metrics_port = x.metrics_port

\* _validate_manifest
ValidateManifest(manifest) == \A f \in RequiredFields : f \in manifest

\* register_service: the dict after the call and the returned bool
RegisterResult(svcs, objs, x) ==
    LET svcs1 == IF x.name \in KeySet(svcs) THEN svcs
                 ELSE SetList(svcs, x.name, <<>>)
    IN  IF HasPortConflict(svcs1, objs, x)
        THEN [services |-> svcs1, ok |-> FALSE]
        ELSE IF ~ValidateManifest(x.manifest)
        THEN [services |-> svcs1, ok |-> FALSE]
        ELSE [services |-> SetList(svcs1, x.name,
                                   Append(GetList(svcs1, x.name), x.service_id)),
              ok |-> TRUE]

\* deregister_service: the dict after the call
DeregisterResult(svcs, n, id) ==
    IF n \in KeySet(svcs)
    THEN SetList(svcs, n, FilterSeq(GetList(svcs, n), SeqRange(GetList(svcs, n)) \ {id}))
    ELSE svcs

HealthyIds(svcs, objs, n) ==
    {id \in SeqRange(GetList(svcs, n)) : objs[id].status = "healthy"}

\* mutant: the status filter is missing
GetServiceUnfiltered(svcs, objs, n) ==
    LET l == GetList(svcs, n) IN IF l = <<>> THEN None ELSE l[1]

\* get_service: healthy_instances[0], or None
GetServiceResult(svcs, objs, n) ==
    LET healthy == FilterSeq(GetList(svcs, n), HealthyIds(svcs, objs, n))
    IN  IF healthy = <<>> THEN None ELSE healthy[1]

\* update_service_health: the instance objects after the call
UpdateHealthResult(svcs, objs, n, id, status) ==
    IF n \in KeySet(svcs) /\ id \in SeqRange(GetList(svcs, n))
    THEN [objs EXCEPT ![id].status = status]
    ELSE objs

\* list_services: the dict, with the instances as they are now
ListAll(svcs, objs) ==
    [n \in KeySet(svcs) |->
        [i \in 1..Len(GetList(svcs, n)) |-> objs[GetList(svcs, n)[i]]]]

\* the spec's rule: a collision on the same host with a registered instance
SameHostCollision(svcs, objs, x) ==
    \E id \in AllIds(svcs) :
        /\ objs[id].host = x.host
        /\ \/ objs[id].grpc_port = x.grpc_port
           \/ objs[id].health_port = x.health_port
           \/ objs[id].metrics_port = x.metrics_port

\* the instance objects still referenced; an object no list refers to is
\* unreachable
Collect(objs, refs) == [id \in (DOMAIN objs) \cap refs |-> objs[id]]

NoOp == [op |-> "none", name |-> None, id |-> None, ok |-> TRUE,
         result |-> None, pre |-> <<>>, manifest_ok |-> TRUE,
         collision |-> FALSE, after_register |-> FALSE, reg_pre |-> <<>>]

\* str(uuid.uuid4()): a string no earlier call produced
Uuid(n) == ToString(n)
ServiceIds == {Uuid(n) : n \in 1..MaxIds}

\* register_service(instance), the instance carrying a fresh service_id
Register(name, host, ports, manifest) ==
    LET x == MkInstance(name, host, ports, manifest, "starting", Uuid(next_id))
        objs1 == inst @@ (x.service_id :> x)
        r == RegisterResult(services, inst, x)
    IN  /\ next_id <= MaxIds
        /\ services' = r.services
        /\ inst' = IF r.ok THEN objs1 ELSE inst
        /\ next_id' = IF r.ok THEN next_id + 1 ELSE next_id
        /\ live_ids' = IF r.ok THEN live_ids \cup {x.service_id} ELSE live_ids
        /\ seq_clean' = (seq_clean /\ ValidateManifest(manifest)
                         /\ ~SameHostCollision(services, inst, x))
        /\ get_run' = <<>>
        /\ last_op' = [NoOp EXCEPT !.op = "register", !.name = name,
                          !.id = x.service_id, !.ok = r.ok,
                          !.pre = ListAll(services, inst),
                          !.manifest_ok = ValidateManifest(manifest),
                          !.collision = SameHostCollision(services, inst, x)]

\* deregister_service(service_name, service_id)
Deregister(name, id) ==
    /\ services' = DeregisterResult(services, name, id)
    /\ inst' = Collect(inst, AllIds(services'))
    /\ live_ids' = IF id \in SeqRange(GetList(services, name))
                   THEN live_ids \ {id} ELSE live_ids
    /\ get_run' = <<>>
    /\ last_op' = [NoOp EXCEPT !.op = "deregister", !.name = name, !.id = id,
                      !.after_register =
                          (last_op.op = "register" /\ last_op.ok
                           /\ last_op.name = name /\ last_op.id = id),
                      !.reg_pre = last_op.pre]
    /\ UNCHANGED <<next_id, seq_clean>>

\* get_service(service_name)
GetService(name) ==
    LET r == GetServiceResult(services, inst, name)
    IN  /\ last_op' = [NoOp EXCEPT !.op = "get", !.name = name, !.result = r]
        /\ get_run' = IF last_op.op = "get" /\ last_op.name = name
                      THEN LastN(Append(get_run, r), MaxGetRun)
                      ELSE <<r>>
        /\ UNCHANGED <<services, inst, next_id, live_ids, seq_clean>>

\* update_service_health(service_name, service_id, status)
UpdateServiceHealth(name, id, status) ==
    /\ inst' = UpdateHealthResult(services, inst, name, id, status)
    /\ get_run' = <<>>
    /\ last_op' = [NoOp EXCEPT !.op = "update", !.name = name, !.id = id]
    /\ UNCHANGED <<services, next_id, live_ids, seq_clean>>

\* ---- the value list_services returned, in the hands of its caller.
\* self.services.copy() is a new dict whose values are the list objects of
\* self.services: an entry is shared while the registry still holds the same
\* list object under that name, and the instances are the registry's objects
NoSnapshot == [taken |-> FALSE, entries |-> <<>>]

\* list_services()
ListServices ==
    /\ ~ls_ret.taken
    /\ ls_ret' = [taken |-> TRUE,
                  entries |-> [i \in 1..Len(services) |->
                                  [name |-> services[i].name, shared |-> TRUE,
                                   list |-> services[i].list]]]
    /\ ls_frozen' = [id \in {} |-> None]
    /\ ls_at' = ListAll(services, inst)
    /\ UNCHANGED <<regVars, regGhost>>

\* the entry e of the returned dict after a registry call: deregister_service
\* binds a new list to its name (rebound), every other call leaves the list
\* object in place, and register_service appends to it
EntryAfter(e, svcs, svcs1, rebound) ==
    IF ~e.shared THEN e
    ELSE IF e.name \in rebound THEN [e EXCEPT !.shared = FALSE,
                                              !.list = GetList(svcs, e.name)]
    ELSE [e EXCEPT !.list = GetList(svcs1, e.name)]

\* the ids in the lists of the returned dict
ReturnedIds(ret) == UNION {SeqRange(ret.entries[i].list) : i \in 1..Len(ret.entries)}

\* what a registry call that rebinds the lists of the names rebound does to
\* the returned dict: the instance objects the registry let go of stay alive
\* through the dict, as they were
Aliased(rebound) ==
    /\ ls_ret' = [ls_ret EXCEPT !.entries =
                      [i \in 1..Len(ls_ret.entries) |->
                          EntryAfter(ls_ret.entries[i], services, services', rebound)]]
    /\ ls_frozen' =
          [id \in ReturnedIds(ls_ret') \ DOMAIN inst' |->
              IF id \in DOMAIN inst THEN inst[id] ELSE ls_frozen[id]]
    /\ UNCHANGED ls_at

\* the returned dict as its holder sees it now
SeenThrough(ret, objs, frozen) ==
    [n \in {ret.entries[i].name : i \in 1..Len(ret.entries)} |->
        LET l == ret.entries[CHOOSE i \in 1..Len(ret.entries) :
                                ret.entries[i].name = n].list
        IN  [i \in 1..Len(l) |->
                IF l[i] \in DOMAIN objs THEN objs[l[i]] ELSE frozen[l[i]]]]

SnapInit ==
    /\ ls_ret = NoSnapshot
    /\ ls_frozen = [id \in {} |-> None]
    /\ ls_at = <<>>

RegInit ==
    /\ services = <<>>
    /\ inst = [id \in {} |-> None]
    /\ next_id = 1
    /\ last_op = NoOp
    /\ get_run = <<>>
    /\ live_ids = {}
    /\ seq_clean = TRUE

\* =========================================================================
\* HealthManager and the servicer handlers that reach the registry
\* =========================================================================
ProbeOutcomes == {"ok", "bad", "error"}   \* HTTP 200, other status, exception
HealthHosts == {"h1"}
HealthPortTriples == {<<1, 1, 1>>, <<2, 2, 2>>}
RegisteredStatus == "starting"

\* the list a snapshot entry refers to: the registry's own list object until
\* a deregister rebinds the name, from then on the list as it was
SnapList(svcs, entry) ==
    IF entry.live THEN GetList(svcs, entry.name) ELSE entry.list

\* the two nested for loops: the next <<entry, index>> at or after <<k, i>>
\* that holds an instance, <<0, 0>> when the iteration is over
RECURSIVE Advance(_, _, _, _)
Advance(snap, svcs, k, i) ==
    IF k > Len(snap) THEN <<0, 0>>
    ELSE IF i <= Len(SnapList(svcs, snap[k])) THEN <<k, i>>
    ELSE Advance(snap, svcs, k + 1, 1)

\* self.previous_statuses.get(instance.service_id, instance.status)
PreviousOr(prev, id, status) == IF id \in DOMAIN prev THEN prev[id] ELSE status

\* mutant: the probed status is not remembered
RememberStatusNever(prev, id, new) ==
    IF id \in DOMAIN prev THEN prev ELSE prev @@ (id :> new)

\* self.previous_statuses[instance.service_id] = new_status
RememberStatus(prev, id, new) ==
    IF id \in DOMAIN prev THEN [prev EXCEPT ![id] = new] ELSE prev @@ (id :> new)

\* the status a probe outcome maps to
ProbeStatus(outcome) == IF outcome = "ok" THEN "healthy" ELSE "unhealthy"

\* ids held by the lists the sweep still iterates
SnapshotIds(snap) ==
    UNION {SeqRange(snap[k].list) : k \in 1..Len(snap)}

\* services = await self.registry.list_services(), then the first probe
SweepStart ==
    LET snap == [k \in 1..Len(services) |->
                    [name |-> services[k].name, live |-> TRUE, list |-> <<>>]]
        pos == Advance(snap, services, 1, 1)
        id == SnapList(services, snap[pos[1]])[pos[2]]
    IN  /\ sweep_pc = "idle"
        /\ pos # <<0, 0>>
        /\ sweep_pc' = "probing"
        /\ sweep_snapshot' = snap
        /\ sweep_pos' = pos
        /\ probe_inst' = id
        /\ probe_old' = PreviousOr(previous_statuses, id, inst[id].status)
        /\ UNCHANGED <<previous_statuses, last_probe, regVars, storeVars>>

\* the probe answers (or fails): update the registry, emit health_changed on
\* a change, remember the status, go on to the next instance
ProbeDone(outcome) ==
    LET id == probe_inst
        new == ProbeStatus(outcome)
        old == IF outcome = "error"
               THEN PreviousOr(previous_statuses, id, inst[id].status)
               ELSE probe_old
        objs1 == UpdateHealthResult(services, inst, inst[id].name, id, new)
        ev == MkEvent(next_event_id, "health_changed", inst[id].name, id, old, new)
        pos == Advance(sweep_snapshot, services, sweep_pos[1], sweep_pos[2] + 1)
        prev1 == RememberStatus(previous_statuses, id, new)
        nxt == SnapList(services, sweep_snapshot[pos[1]])[pos[2]]
    IN  /\ sweep_pc = "probing"
        /\ old # new => Len(history) < MaxHistory
        /\ IF old # new
           THEN /\ events' = RingAppend(events, ev)
                /\ history' = Append(history, ev)
                /\ next_event_id' = next_event_id + 1
           ELSE UNCHANGED <<events, history, next_event_id>>
        /\ previous_statuses' = prev1
        /\ last_probe' = [id |-> id, outcome |-> outcome, old |-> old,
                          seq |-> 1 - last_probe.seq]
        /\ IF pos = <<0, 0>>
           THEN /\ sweep_pc' = "idle"
                /\ sweep_snapshot' = <<>>
                /\ sweep_pos' = <<0, 0>>
                /\ probe_inst' = None
                /\ probe_old' = None
                /\ inst' = Collect(objs1, AllIds(services))
           ELSE /\ sweep_pc' = "probing"
                /\ sweep_snapshot' = sweep_snapshot
                /\ sweep_pos' = pos
                /\ probe_inst' = nxt
                /\ probe_old' = PreviousOr(prev1, nxt, objs1[nxt].status)
                /\ inst' = Collect(objs1, AllIds(services)
                                            \cup SnapshotIds(sweep_snapshot) \cup {nxt})
        /\ UNCHANGED <<services, next_id, store_lock, ae_pc, ae_event>>

\* AOLCoreServicer.RegisterService: the manifest is built with all four
\* fields, the instance starts as "starting" with a fresh uuid
RegisterService(name, host, ports) ==
    LET x == MkInstance(name, host, ports, RequiredFields, RegisteredStatus,
                        Uuid(next_id))
        r == RegisterResult(services, inst, x)
        ev == MkEvent(next_event_id, "service_registered", name, x.service_id,
                      None, None)
    IN  /\ next_id <= MaxIds
        /\ Len(history) < MaxHistory
        /\ services' = r.services
        /\ IF r.ok
           THEN /\ inst' = inst @@ (x.service_id :> x)
                /\ next_id' = next_id + 1
                /\ events' = RingAppend(events, ev)
                /\ history' = Append(history, ev)
                /\ next_event_id' = next_event_id + 1
           ELSE UNCHANGED <<inst, next_id, events, history, next_event_id>>
        /\ UNCHANGED <<store_lock, ae_pc, ae_event, healthVars>>

\* AOLCoreServicer.DeregisterService
DeregisterService(name, id) ==
    LET ev == MkEvent(next_event_id, "service_deregistered", name, id, None, None)
        snap1 == [k \in 1..Len(sweep_snapshot) |->
                    IF /\ sweep_snapshot[k].name = name
                       /\ sweep_snapshot[k].live
                       /\ name \in KeySet(services)
                    THEN [name |-> name, live |-> FALSE,
                          list |-> GetList(services, name)]
                    ELSE sweep_snapshot[k]]
    IN  /\ Len(history) < MaxHistory
        /\ services' = DeregisterResult(services, name, id)
        /\ sweep_snapshot' = snap1
        /\ inst' = Collect(inst, AllIds(services') \cup SnapshotIds(snap1)
                                    \cup ({probe_inst} \ {None}))
        /\ events' = RingAppend(events, ev)
        /\ history' = Append(history, ev)
        /\ next_event_id' = next_event_id + 1
        /\ UNCHANGED <<next_id, store_lock, ae_pc, ae_event, previous_statuses,
                       sweep_pc, sweep_pos, probe_inst, probe_old, last_probe>>

\* AOLCoreServicer.ReportHealth: the service name is passed as service_id
ReportHealth(name, status) ==
    /\ inst' = UpdateHealthResult(services, inst, name, name, status)
    /\ UNCHANGED <<services, next_id, storeVars, healthVars>>

HealthInit ==
    /\ previous_statuses = [id \in {} |-> None]
    /\ sweep_pc = "idle"
    /\ sweep_snapshot = <<>>
    /\ sweep_pos = <<0, 0>>
    /\ probe_inst = None
    /\ probe_old = None
    /\ last_probe = [id |-> None, outcome |-> None, old |-> None, seq |-> 0]

\* =========================================================================
\* CircuitBreaker (sidecar) driven by ToolExecutor.execute
\* =========================================================================
failure_threshold == 5
success_threshold == 3
timeout == 60
\* timedelta.seconds is the seconds field of the difference: days are not
\* part of it
DaySeconds == 86400
\* the instants at which the clock is read: half-minute slots at the start
\* of each day
Instants == {d * DaySeconds + k * 30 : d \in 0..MaxDays, k \in 0..MaxSlots}

CLOSED == "closed"
OPEN == "open"
HALF_OPEN == "half_open"

\* (datetime.now() - self.last_failure_time).seconds
TimedeltaSeconds(t, since) == (t - since) % DaySeconds

\* can_execute: whether the call is allowed, and the breaker afterwards
CanExecute(st, sc, lft, t) ==
    IF st = CLOSED THEN [allowed |-> TRUE, state |-> st, success_count |-> sc]
    ELSE IF st = OPEN
    THEN IF lft # <<>> /\ TimedeltaSeconds(t, lft[1]) >= timeout
         THEN [allowed |-> TRUE, state |-> HALF_OPEN, success_count |-> 0]
         ELSE [allowed |-> FALSE, state |-> st, success_count |-> sc]
    ELSE [allowed |-> TRUE, state |-> st, success_count |-> sc]

\* record_success
RecordSuccess(st, fc, sc) ==
    IF st = HALF_OPEN
    THEN IF sc + 1 >= success_threshold
         THEN [state |-> CLOSED, failure_count |-> 0, success_count |-> 0]
         ELSE [state |-> st, failure_count |-> fc, success_count |-> sc + 1]
    ELSE [state |-> st, failure_count |-> 0, success_count |-> sc]

\* record_failure
RecordFailure(st, fc, sc) ==
    [state |-> IF fc + 1 >= failure_threshold THEN OPEN ELSE st,
     failure_count |-> fc + 1, success_count |-> 0]

CbCall(op, allowed) ==
    [op |-> op, allowed |-> allowed, state |-> cb_state, failure_count |-> failure_count,
     since_opened |-> IF cb_state = OPEN THEN now - opened_at ELSE 0,
     probe_pending |-> probe_pending]

\* execute, up to the request being sent: the breaker is asked first
ExecuteStart ==
    LET r == CanExecute(cb_state, success_count, last_failure_time, now)
    IN  /\ r.allowed => cb_inflight < MaxInFlight
        /\ cb_state' = r.state
        /\ success_count' = r.success_count
        /\ cb_inflight' = IF r.allowed THEN cb_inflight + 1 ELSE cb_inflight
        /\ half_open_successes' =
              IF cb_state = OPEN /\ r.state = HALF_OPEN THEN 0 ELSE half_open_successes
        /\ cb_last' = CbCall("can_execute", r.allowed)
        /\ probe_pending' = (probe_pending \/ (cb_state = OPEN /\ r.state = HALF_OPEN))
        /\ UNCHANGED <<now, failure_count, last_failure_time, opened_at>>

\* the response of an admitted call: status < 400
ExecuteSuccess ==
    LET r == RecordSuccess(cb_state, failure_count, success_count)
    IN  /\ cb_inflight > 0
        /\ cb_state' = r.state
        /\ failure_count' = r.failure_count
        /\ success_count' = r.success_count
        /\ cb_inflight' = cb_inflight - 1
        /\ half_open_successes' =
              IF cb_state = HALF_OPEN THEN half_open_successes + 1
              ELSE half_open_successes
        /\ cb_last' = CbCall("record_success", TRUE)
        /\ probe_pending' = FALSE
        /\ UNCHANGED <<now, last_failure_time, opened_at>>

\* the failure of an admitted call: status >= 400, timeout or exception
ExecuteFailure ==
    LET r == RecordFailure(cb_state, failure_count, success_count)
    IN  /\ cb_inflight > 0
        /\ failure_count < MaxFailureCount
        /\ cb_state' = r.state
        /\ failure_count' = r.failure_count
        /\ success_count' = r.success_count
        /\ last_failure_time' = <<now>>
        /\ cb_inflight' = cb_inflight - 1
        /\ opened_at' = IF cb_state # OPEN /\ r.state = OPEN THEN now ELSE opened_at
        /\ cb_last' = CbCall("record_failure", TRUE)
        /\ probe_pending' = FALSE
        /\ UNCHANGED <<now, half_open_successes>>

\* time passes
Tick(t) ==
    /\ t > now
    /\ now' = t
    /\ UNCHANGED <<cb_state, failure_count, success_count, last_failure_time,
                   cb_inflight, cb_last, opened_at, half_open_successes,
                   probe_pending>>

CbInit ==
    /\ now = 0
    /\ cb_state = CLOSED
    /\ failure_count = 0
    /\ success_count = 0
    /\ last_failure_time = <<>>
    /\ cb_inflight = 0
    /\ cb_last = [op |-> None, allowed |-> TRUE, state |-> CLOSED,
                  failure_count |-> 0, since_opened |-> 0,
                  probe_pending |-> FALSE]
    /\ opened_at = 0
    /\ half_open_successes = 0
    /\ probe_pending = FALSE

\* =========================================================================
\* GRPCRouter: route_async callers, the request queue, the workers and the
\* load balancer
\* =========================================================================
\* AsyncRequestQueue(max_size=10000); the queue is modelled with a small
\* capacity
max_size == 1
max_retries == 3
\* start(num_workers=4) creates the workers; they share the queue and the
\* load balancer and nothing else, and one of them is modelled
Workers == {"w1"}
RouteOutcomes == {"ok", "raise"}   \* the try block completes, or raises
HEALTH_AWARE == "health_aware"
RouterSource == "client"
\* the services that register instances, and their ports
RouterTargets == {"svc-a"}
RouterPortTriples == {<<1, 1, 1>>}
RouterMethod == "Process"

\* Event(..., event_type=ROUTE_CALLED, source_service, target_service, method,
\* success, metadata={instance, latency_ms, strategy})
MkRouteEvent(id, source, target, method, success, instance, strategy) ==
    [event_id |-> id, event_type |-> "route_called", service_name |-> None,
     service_id |-> None, old_status |-> None, new_status |-> None,
     source_service |-> source, target_service |-> target, method |-> method,
     success |-> success,
     metadata |-> [instance |-> instance, latency_ms |-> 0, strategy |-> strategy]]

\* _get_service_instances: the instances listed under the name, [] otherwise
GetServiceInstances(svcs, objs, n) ==
    IF n \in KeySet(svcs)
    THEN [i \in 1..Len(GetList(svcs, n)) |-> objs[GetList(svcs, n)[i]]]
    ELSE <<>>

\* f"{instance.get('host')}:{instance.get('grpc_port')}"
InstanceId(i) == <<i.host, i.grpc_port>>

\* health_score = success_rate * 0.7 + latency_factor * 0.3 as a fraction
\* <<numerator, denominator>>; the placeholder route takes no time, so
\* latency_factor is 1; an instance without metrics scores 1.0
HealthScore(metrics, key) ==
    IF key \in DOMAIN metrics
    THEN <<7 * metrics[key].successful_requests + 3 * metrics[key].total_requests,
           10 * metrics[key].total_requests>>
    ELSE <<10, 10>>

ScoreGreater(a, b) == a[1] * b[2] > b[1] * a[2]

\* select_instance with HEALTH_AWARE: the healthy instances, all of them when
\* none is healthy; the first one with the highest health score
SelectInstance(instances, metrics) ==
    LET healthyIdx == {i \in 1..Len(instances) : instances[i].status = "healthy"}
        idx == IF healthyIdx = {} THEN 1..Len(instances) ELSE healthyIdx
        score(i) == HealthScore(metrics, InstanceId(instances[i]))
    IN  instances[CHOOSE i \in idx :
                    /\ \A j \in idx : ~ScoreGreater(score(j), score(i))
                    /\ \A j \in idx : j < i => ScoreGreater(score(i), score(j))]

\* increment_connections: only an instance that already has metrics
IncrementConnections(metrics, key) ==
    IF key \in DOMAIN metrics
    THEN [metrics EXCEPT ![key].active_connections = @ + 1]
    ELSE metrics

\* decrement_connections
DecrementConnections(metrics, key) ==
    IF key \in DOMAIN metrics
    THEN [metrics EXCEPT ![key].active_connections = IF @ - 1 > 0 THEN @ - 1 ELSE 0]
    ELSE metrics

\* update_metrics
UpdateMetrics(metrics, key, success) ==
    LET m0 == IF key \in DOMAIN metrics THEN metrics[key]
              ELSE [total_requests |-> 0, successful_requests |-> 0,
                    active_connections |-> 0]
        m1 == [m0 EXCEPT !.total_requests = @ + 1,
                         !.successful_requests = IF success THEN @ + 1 ELSE @]
    IN  [k \in DOMAIN metrics \cup {key} |-> IF k = key THEN m1 ELSE metrics[k]]

\* mutant: complete() sets the result without looking at the future
CompleteFutureUnchecked(fut, futs, id, resp) == [fut EXCEPT ![id] = resp]

\* AsyncRequestQueue.complete: the futures after it
CompleteFuture(fut, futs, id, resp) ==
    IF id \in futs /\ fut[id] = "pending" THEN [fut EXCEPT ![id] = resp] ELSE fut

LogAttempt(log, id, metric, event) ==
    [log EXCEPT ![id] = [attempts |-> @.attempts + 1,
                         metrics |-> @.metrics + (IF metric THEN 1 ELSE 0),
                         events |-> @.events + (IF event THEN 1 ELSE 0)]]

\* route_async up to its first suspension: the request is built, enqueue
\* registers the future and the request under the lock, then awaits
\* queue.put; with room in the queue the caller goes on to wait_for
RouteAsync(c, target) ==
    LET id == next_request
    IN  /\ rt_pc[c] = "idle"
        /\ next_request <= MaxRequests
        /\ next_request' = next_request + 1
        /\ request' = request @@ (id :> [target |-> target, retry_count |-> 0])
        /\ future' = future @@ (id :> "pending")
        /\ response_futures' = response_futures \cup {id}
        /\ in_flight' = in_flight \cup {id}
        /\ delivered' = delivered @@ (id :> None)
        /\ rq_log' = rq_log @@ (id :> [attempts |-> 0, metrics |-> 0, events |-> 0])
        /\ rt_req' = [rt_req EXCEPT ![c] = id]
        /\ IF Len(queue) < max_size
           THEN /\ queue' = Append(queue, id)
                /\ rt_pc' = [rt_pc EXCEPT ![c] = "wait"]
           ELSE /\ queue' = queue
                /\ rt_pc' = [rt_pc EXCEPT ![c] = "put"]
        /\ UNCHANGED <<w_pc, w_req, w_inst, instance_metrics, last_route>>

\* the blocked queue.put of enqueue gets its slot
RoutePut(c) ==
    /\ rt_pc[c] = "put"
    /\ Len(queue) < max_size
    /\ queue' = Append(queue, rt_req[c])
    /\ rt_pc' = [rt_pc EXCEPT ![c] = "wait"]
    /\ UNCHANGED <<in_flight, response_futures, future, request, next_request,
                   rt_req, w_pc, w_req, w_inst, instance_metrics, delivered,
                   rq_log, last_route>>

\* wait_for returns the result a worker has set
RouteReturn(c) ==
    LET id == rt_req[c]
    IN  /\ rt_pc[c] = "wait"
        /\ future[id] \in {"ok", "fail"}
        /\ delivered' = [delivered EXCEPT ![id] = future[id]]
        /\ rt_pc' = [rt_pc EXCEPT ![c] = "idle"]
        /\ rt_req' = [rt_req EXCEPT ![c] = 0]
        /\ UNCHANGED <<queue, in_flight, response_futures, future, request,
                       next_request, w_pc, w_req, w_inst, instance_metrics,
                       rq_log, last_route>>

\* timeout_seconds elapse: wait_for cancels the future and raises, fail()
\* drops the entries, the deadline error is returned
RouteTimeout(c) ==
    LET id == rt_req[c]
    IN  /\ rt_pc[c] = "wait"
        /\ future[id] = "pending"
        /\ future' = [future EXCEPT ![id] = "cancelled"]
        /\ response_futures' = response_futures \ {id}
        /\ in_flight' = in_flight \ {id}
        /\ delivered' = [delivered EXCEPT ![id] = "timeout"]
        /\ rt_pc' = [rt_pc EXCEPT ![c] = "idle"]
        /\ rt_req' = [rt_req EXCEPT ![c] = 0]
        /\ UNCHANGED <<queue, request, next_request, w_pc, w_req, w_inst,
                       instance_metrics, rq_log, last_route>>

\* what a worker's attempt leaves behind when it runs to complete()
WorkerFinish(w, id, resp, metrics1, queue1, request1) ==
    /\ queue' = queue1
    /\ request' = request1
    /\ instance_metrics' = metrics1
    /\ future' = CompleteFuture(future, response_futures, id, resp)
    /\ response_futures' = response_futures \ {id}
    /\ in_flight' = in_flight \ {id}
    /\ w_pc' = [w_pc EXCEPT ![w] = "idle"]
    /\ w_req' = [w_req EXCEPT ![w] = 0]
    /\ w_inst' = [w_inst EXCEPT ![w] = <<>>]

\* failed attempts made so far, over all requests
RECURSIVE Raises(_, _)
Raises(log, n) ==
    IF n = 0 THEN 0
    ELSE Raises(log, n - 1)
            + (IF n \in DOMAIN log THEN log[n].metrics - log[n].events ELSE 0)

\* the try block of _route_request against the selected instance, with its
\* except and finally: the attempt succeeds (metrics, route_called event,
\* success response) or raises (metrics, retry or failure response)
WorkerAttempt(w, id, key, outcome, yields) ==
    LET r == request[id]
        queue1 == Tail(queue)
        m1 == IncrementConnections(instance_metrics, key)
        ev == MkRouteEvent(next_event_id, RouterSource, r.target, RouterMethod,
                           TRUE, key, HEALTH_AWARE)
        late == delivered[id] = "timeout"
        seq == 1 - last_route.seq
    IN  IF outcome = "ok"
        THEN /\ Len(history) < MaxHistory
             /\ events' = RingAppend(events, ev)
             /\ history' = Append(history, ev)
             /\ next_event_id' = next_event_id + 1
             /\ rq_log' = LogAttempt(rq_log, id, TRUE, TRUE)
             /\ last_route' = [id |-> id, result |-> "ok", event |-> TRUE,
                               late |-> late, seq |-> seq]
             /\ IF yields
                THEN /\ queue' = queue1
                     /\ instance_metrics' = UpdateMetrics(m1, key, TRUE)
                     /\ w_pc' = [w_pc EXCEPT ![w] = "publishing"]
                     /\ w_req' = [w_req EXCEPT ![w] = id]
                     /\ w_inst' = [w_inst EXCEPT ![w] = key]
                     /\ UNCHANGED <<future, response_futures, in_flight, request>>
                ELSE WorkerFinish(w, id, "ok",
                         DecrementConnections(UpdateMetrics(m1, key, TRUE), key),
                         queue1, request)
        ELSE /\ ~yields
             /\ Raises(rq_log, MaxRequests) < MaxRaises
             /\ rq_log' = LogAttempt(rq_log, id, TRUE, FALSE)
             /\ UNCHANGED <<events, history, next_event_id>>
             /\ IF r.retry_count < max_retries
                THEN /\ last_route' = [id |-> id, result |-> "error_retry",
                                       event |-> FALSE, late |-> late, seq |-> seq]
                     /\ WorkerFinish(w, id, "fail",
                            DecrementConnections(UpdateMetrics(m1, key, FALSE), key),
                            Append(queue1, id),
                            [request EXCEPT ![id].retry_count = @ + 1])
                ELSE /\ last_route' = [id |-> id, result |-> "error_final",
                                       event |-> FALSE, late |-> late, seq |-> seq]
                     /\ WorkerFinish(w, id, "fail",
                            DecrementConnections(UpdateMetrics(m1, key, FALSE), key),
                            queue1, request)

\* a worker dequeues a request and routes it (_route_request), up to
\* complete() or to the point where it is suspended in add_event while the
\* event is published to subscribers (yields). The retry's queue.put finds
\* the slot the worker's own dequeue has just freed, no other task having
\* run in between.
WorkerRoute(w, outcome, yields) ==
    /\ w_pc[w] = "idle"
    /\ queue # <<>>
    /\ LET id == Head(queue)
           instances == GetServiceInstances(services, inst, request[id].target)
       IN  IF instances = <<>>
           THEN /\ outcome = "ok" /\ ~yields
                /\ WorkerFinish(w, id, "fail", instance_metrics, Tail(queue), request)
                /\ rq_log' = LogAttempt(rq_log, id, FALSE, FALSE)
                /\ last_route' = [id |-> id, result |-> "no_instance",
                                  event |-> FALSE,
                                  late |-> delivered[id] = "timeout",
                                  seq |-> 1 - last_route.seq]
                /\ UNCHANGED <<events, history, next_event_id>>
           ELSE \E key \in {InstanceId(SelectInstance(instances, instance_metrics))} :
                    WorkerAttempt(w, id, key, outcome, yields)
    /\ UNCHANGED <<next_request, rt_pc, rt_req, delivered>>

\* add_event returns: the success response is returned, finally decrements
\* the connections, the worker completes the request
WorkerPublished(w) ==
    /\ w_pc[w] = "publishing"
    /\ WorkerFinish(w, w_req[w], "ok",
                    DecrementConnections(instance_metrics, w_inst[w]), queue, request)
    /\ UNCHANGED <<next_request, rt_pc, rt_req, delivered, rq_log, last_route,
                   events, history, next_event_id>>

RouterInit ==
    /\ queue = <<>>
    /\ in_flight = {}
    /\ response_futures = {}
    /\ future = [id \in {} |-> None]
    /\ request = [id \in {} |-> None]
    /\ next_request = 1
    /\ rt_pc = [c \in Callers |-> "idle"]
    /\ rt_req = [c \in Callers |-> 0]
    /\ w_pc = [w \in Workers |-> "idle"]
    /\ w_req = [w \in Workers |-> 0]
    /\ w_inst = [w \in Workers |-> <<>>]
    /\ instance_metrics = [k \in {} |-> None]
    /\ delivered = [id \in {} |-> None]
    /\ rq_log = [id \in {} |-> None]
    /\ last_route = [id |-> 0, result |-> None, event |-> FALSE, late |-> FALSE,
                     seq |-> 0]

\* =========================================================================
\* EventBus: handlers, channels, subscribers, and add_event's dispatch and
\* publication
\* =========================================================================
\* asyncio.Queue(maxsize=1000); the subscriber queues are modelled with a
\* small capacity
sub_maxsize == 1
SubIds == {"k1", "k2"}
Handlers == {"h1", "h2"}
HandlerOutcomes == {"ok", "raise"}
WorkflowIds == {"wf1"}
BusNames == {"svc-a"}
BusCallers == {"c1"}
\* the handlers are registered for one event type; the events added are of
\* that type with a service and a workflow, or of the other type with
\* neither
HandlerTypes == {"route_called"}
BusInputs == {<<"route_called", "svc-a", "wf1">>,
              <<"service_registered", None, None>>}
\* the channel the subscribers subscribe to (every channel runs the same code)
SubChannels == {"global"}
GLOBAL == "global"
ServiceChannel(n) == "service:" \o n
WorkflowChannel(wf) == "workflow:" \o wf
BusChannels == {GLOBAL} \cup {ServiceChannel(n) : n \in BusNames}
                        \cup {WorkflowChannel(wf) : wf \in WorkflowIds}

\* the channels add_event publishes an event to, in the order it does
ChannelsOf(e) ==
    (IF e.service_name # None THEN <<ServiceChannel(e.service_name)>> ELSE <<>>)
        \o (IF e.workflow_id # None THEN <<WorkflowChannel(e.workflow_id)>> ELSE <<>>)
        \o <<GLOBAL>>

SubscriberIds(subs) == {subs[i].id : i \in 1..Len(subs)}
QueueOf(subs, k) == subs[CHOOSE i \in 1..Len(subs) : subs[i].id = k].q

LastTwo(l) == IF Len(l) > 2 THEN Tail(l) ELSE l

\* mutant: subscribe binds a new Queue whatever the dict holds
SubscribeResultFresh(subs, k, fresh) ==
    IF k \in SubscriberIds(subs)
    THEN [i \in 1..Len(subs) |-> IF subs[i].id = k THEN [id |-> k, q |-> fresh]
                                  ELSE subs[i]]
    ELSE Append(subs, [id |-> k, q |-> fresh])

\* PubSubChannel.subscribe: the dict after the call
SubscribeResult(subs, k, fresh) ==
    IF k \in SubscriberIds(subs) THEN subs ELSE Append(subs, [id |-> k, q |-> fresh])

\* self.subscribers.pop(sub_id, None) for every id of dead
RECURSIVE PopAll(_, _)
PopAll(subs, dead) ==
    IF subs = <<>> THEN <<>>
    ELSE IF Head(subs).id \in dead THEN PopAll(Tail(subs), dead)
         ELSE <<Head(subs)>> \o PopAll(Tail(subs), dead)

\* mutant: the dead subscribers stay subscribed
EvictDeadNever(subs, dead) == subs

\* the cleanup after the loop of publish
EvictDead(subs, dead) == PopAll(subs, dead)

\* mutant: the first exception ends the dispatch and leaves it
DispatchResultPropagating(hs, outcome) ==
    LET failing == {i \in 1..Len(hs) : outcome[hs[i]] = "raise"}
        first == IF failing = {} THEN Len(hs)
                 ELSE CHOOSE i \in failing : \A j \in failing : i <= j
    IN  [handlers |-> hs, invoked |-> SubSeq(hs, 1, first),
         raised |-> {hs[i] : i \in failing}, propagated |-> failing # {}]

\* EventBus.dispatch: a task per handler, gathered with
\* return_exceptions=True
DispatchResult(hs, outcome) ==
    [handlers |-> hs, invoked |-> hs,
     raised |-> {hs[i] : i \in {j \in 1..Len(hs) : outcome[hs[j]] = "raise"}},
     propagated |-> FALSE]

NoAdd == [event_id |-> 0, dispatch |-> DispatchResult(<<>>, [h \in Handlers |-> "ok"]),
          published |-> <<>>, returned |-> FALSE]

\* EventBus.register_handler
RegisterHandler(type, h) ==
    /\ Len(event_handlers[type]) < MaxHandlers
    /\ event_handlers' = [event_handlers EXCEPT ![type] = Append(@, h)]
    /\ UNCHANGED <<ch_subs, ch_lock, sub_queue, next_q, ae_chans, pub_idx,
                   pub_dead, pub_done, put_log, bus_last, sub_ret>>

\* EventBus.subscribe(channel_name, subscriber_id): the channel is created
\* when missing, the subscriber's Queue is created when missing
Subscribe(chan, k) ==
    LET subs1 == SubscribeResult(ch_subs[chan], k, next_q)
        created == QueueOf(subs1, k) = next_q
    IN  /\ ch_lock[chan] = "free"
        /\ next_q <= MaxQueues
        /\ ch_subs' = [ch_subs EXCEPT ![chan] = subs1]
        /\ next_q' = IF created THEN next_q + 1 ELSE next_q
        /\ sub_queue' = IF created THEN sub_queue @@ (next_q :> <<>>) ELSE sub_queue
        /\ put_log' = IF created THEN put_log @@ (next_q :> <<>>) ELSE put_log
        /\ sub_ret' = [sub_ret EXCEPT ![chan][k] =
                          LastTwo(Append(@, [q |-> QueueOf(subs1, k),
                                             puts |-> IF created THEN 0
                                                      ELSE Len(put_log[QueueOf(subs1, k)])]))]
        /\ UNCHANGED <<ch_lock, event_handlers, ae_chans, pub_idx, pub_dead,
                       pub_done, bus_last>>

\* PubSubChannel.unsubscribe
Unsubscribe(chan, k) ==
    /\ ch_lock[chan] = "free"
    /\ k \in SubscriberIds(ch_subs[chan])
    /\ ch_subs' = [ch_subs EXCEPT ![chan] = PopAll(@, {k})]
    /\ sub_ret' = [sub_ret EXCEPT ![chan][k] = <<>>]
    /\ UNCHANGED <<ch_lock, sub_queue, next_q, event_handlers, ae_chans,
                   pub_idx, pub_dead, pub_done, put_log, bus_last>>

\* a subscriber takes the oldest event from the Queue it was given
\* (queue.get() in the subscriber's task); it runs whenever the publisher is
\* suspended, and the publisher is suspended in wait_for
QueueGet(q) ==
    /\ sub_queue[q] # <<>>
    /\ sub_queue' = [sub_queue EXCEPT ![q] = Tail(@)]
    /\ UNCHANGED <<ch_subs, ch_lock, next_q, event_handlers, ae_chans, pub_idx,
                   pub_dead, pub_done, put_log, bus_last, sub_ret>>

\* Event(...) with the fields add_event routes on
MkBusEvent(id, type, name, wf) ==
    [event_id |-> id, event_type |-> type, service_name |-> name,
     service_id |-> None, old_status |-> None, new_status |-> None,
     workflow_id |-> wf]

\* a caller builds an Event and calls add_event
BusAddEventCall(c, type, name, wf) ==
    /\ ae_pc[c] = "idle"
    /\ next_event_id <= MaxBusEvents
    /\ ae_event' = [ae_event EXCEPT ![c] = MkBusEvent(next_event_id, type, name, wf)]
    /\ next_event_id' = next_event_id + 1
    /\ ae_pc' = [ae_pc EXCEPT ![c] = "acquire"]
    /\ UNCHANGED <<events, store_lock, history>>

\* await self.event_bus.dispatch(event): every handler of the event's type
\* runs as a task; then the publication starts
BusDispatch(c, outcome) ==
    LET d == DispatchResult(event_handlers[ae_event[c].event_type], outcome)
    IN  /\ ae_pc[c] = "publish"
        /\ \A h \in Handlers :
              h \notin SeqRange(event_handlers[ae_event[c].event_type])
                  => outcome[h] = "ok"
        /\ bus_last' = [bus_last EXCEPT ![c] =
                            [event_id |-> ae_event[c].event_id, dispatch |-> d,
                             published |-> <<>>, returned |-> d.propagated]]
        /\ IF d.propagated
           THEN /\ ae_pc' = [ae_pc EXCEPT ![c] = "idle"]
                /\ ae_event' = [ae_event EXCEPT ![c] = None]
                /\ ae_chans' = ae_chans
           ELSE /\ ae_pc' = [ae_pc EXCEPT ![c] = "channel"]
                /\ ae_event' = ae_event
                /\ ae_chans' = [ae_chans EXCEPT ![c] = ChannelsOf(ae_event[c])]
        /\ UNCHANGED <<events, store_lock, next_event_id, history, ch_subs,
                       ch_lock, sub_queue, next_q, event_handlers, pub_idx,
                       pub_dead, pub_done, put_log, sub_ret>>

\* EventBus.publish(channel, event): async with channel.lock
PublishStart(c) ==
    LET chan == Head(ae_chans[c])
    IN  /\ ae_pc[c] = "channel"
        /\ ch_lock[chan] = "free"
        /\ ch_lock' = [ch_lock EXCEPT ![chan] = c]
        /\ ae_pc' = [ae_pc EXCEPT ![c] = "putting"]
        /\ pub_idx' = [pub_idx EXCEPT ![c] = 1]
        /\ pub_dead' = [pub_dead EXCEPT ![c] = {}]
        /\ pub_done' = [pub_done EXCEPT ![c] = {}]
        /\ UNCHANGED <<events, store_lock, ae_event, next_event_id, history,
                       ch_subs, sub_queue, next_q, event_handlers, ae_chans,
                       put_log, bus_last, sub_ret>>

\* wait_for(queue.put(event), 1.0) completes: the Queue has room
PublishPut(c) ==
    LET chan == Head(ae_chans[c])
        s == ch_subs[chan][pub_idx[c]]
    IN  /\ ae_pc[c] = "putting"
        /\ pub_idx[c] <= Len(ch_subs[chan])
        /\ Len(sub_queue[s.q]) < sub_maxsize
        /\ sub_queue' = [sub_queue EXCEPT ![s.q] = Append(@, ae_event[c].event_id)]
        /\ put_log' = [put_log EXCEPT ![s.q] = Append(@, ae_event[c].event_id)]
        /\ pub_done' = [pub_done EXCEPT ![c] = @ \cup {s.id}]
        /\ pub_idx' = [pub_idx EXCEPT ![c] = @ + 1]
        /\ UNCHANGED <<events, store_lock, ae_pc, ae_event, next_event_id,
                       history, ch_subs, ch_lock, next_q, event_handlers,
                       ae_chans, pub_dead, bus_last, sub_ret>>

\* wait_for raises TimeoutError: the Queue stayed full for the second
PublishTimeout(c) ==
    LET chan == Head(ae_chans[c])
        s == ch_subs[chan][pub_idx[c]]
    IN  /\ ae_pc[c] = "putting"
        /\ pub_idx[c] <= Len(ch_subs[chan])
        /\ Len(sub_queue[s.q]) >= sub_maxsize
        /\ pub_dead' = [pub_dead EXCEPT ![c] = @ \cup {s.id}]
        /\ pub_idx' = [pub_idx EXCEPT ![c] = @ + 1]
        /\ UNCHANGED <<events, store_lock, ae_pc, ae_event, next_event_id,
                       history, ch_subs, ch_lock, sub_queue, next_q,
                       event_handlers, ae_chans, pub_done, put_log, bus_last,
                       sub_ret>>

\* the loop is over: the dead subscribers are popped, the lock is released,
\* publish returns; add_event goes on to its next channel or returns
PublishDone(c) ==
    LET chan == Head(ae_chans[c])
        rest == Tail(ae_chans[c])
    IN  /\ ae_pc[c] = "putting"
        /\ pub_idx[c] > Len(ch_subs[chan])
        /\ ch_subs' = [ch_subs EXCEPT ![chan] = EvictDead(@, pub_dead[c])]
        /\ ch_lock' = [ch_lock EXCEPT ![chan] = "free"]
        /\ pub_idx' = [pub_idx EXCEPT ![c] = 0]
        /\ ae_chans' = [ae_chans EXCEPT ![c] = rest]
        /\ bus_last' = [bus_last EXCEPT ![c].published = Append(@, chan),
                                        ![c].returned = (rest = <<>>)]
        /\ ae_pc' = [ae_pc EXCEPT ![c] = IF rest = <<>> THEN "idle" ELSE "channel"]
        /\ ae_event' = [ae_event EXCEPT ![c] = IF rest = <<>> THEN None ELSE @]
        /\ sub_ret' = [sub_ret EXCEPT ![chan] =
                          [k \in SubIds |-> IF k \in SubscriberIds(ch_subs'[chan])
                                            THEN @[k] ELSE <<>>]]
        /\ UNCHANGED <<events, store_lock, next_event_id, history, sub_queue,
                       next_q, event_handlers, pub_dead, pub_done, put_log>>

BusInit ==
    /\ ch_subs = [chan \in BusChannels |-> <<>>]
    /\ ch_lock = [chan \in BusChannels |-> "free"]
    /\ sub_queue = [q \in {} |-> <<>>]
    /\ next_q = 1
    /\ event_handlers = [t \in EventTypes |-> <<>>]
    /\ ae_chans = [c \in Callers |-> <<>>]
    /\ pub_idx = [c \in Callers |-> 0]
    /\ pub_dead = [c \in Callers |-> {}]
    /\ pub_done = [c \in Callers |-> {}]
    /\ put_log = [q \in {} |-> <<>>]
    /\ bus_last = [c \in Callers |-> NoAdd]
    /\ sub_ret = [chan \in BusChannels |-> [k \in SubIds |-> <<>>]]

\* =========================================================================
\* EventStore.get_events
\* =========================================================================
\* an attribute of an Event; the dataclass defaults the optional ones to None
Attr(e, f) == IF f \in DOMAIN e THEN e[f] ELSE None

RECURSIVE Filter(_, _, _, _)
\* the three list comprehensions; a filter that is None is not applied
Filter(evs, event_type, service_name, workflow_id) ==
    IF evs = <<>> THEN <<>>
    ELSE LET e == Head(evs)
             keep == /\ event_type # None => e.event_type = event_type
                     /\ service_name # None =>
                            \/ e.service_name = service_name
                            \/ Attr(e, "source_service") = service_name
                            \/ Attr(e, "target_service") = service_name
                     /\ workflow_id # None => Attr(e, "workflow_id") = workflow_id
         IN  (IF keep THEN <<e>> ELSE <<>>)
                 \o Filter(Tail(evs), event_type, service_name, workflow_id)

\* l[-limit:] for limit >= 0: -0 is 0, and l[0:] is the whole list
SliceLast(l, limit) == IF limit = 0 THEN l ELSE LastN(l, limit)

\* get_events(event_type, service_name, workflow_id, limit): the body runs
\* under the store lock with no suspension
GetEvents(event_type, service_name, workflow_id, limit) ==
    /\ store_lock = "free"
    /\ ge_last' = [called |-> TRUE, event_type |-> event_type,
                   service_name |-> service_name, workflow_id |-> workflow_id,
                   limit |-> limit, read |-> events,
                   result |-> SliceLast(Filter(events, event_type, service_name,
                                               workflow_id), limit)]

QueryInit ==
    ge_last = [called |-> FALSE, event_type |-> None, service_name |-> None,
               workflow_id |-> None, limit |-> 0, read |-> <<>>, result |-> <<>>]

\* =========================================================================
\* EventStore: contributions, credit assignment and workflow tracking
\* =========================================================================
Agents == {"a", "b", "c"}
Workflows == {"W1", "W2"}

RECURSIVE Fact(_)
\* math.factorial
Fact(n) == IF n <= 0 THEN 1 ELSE n * Fact(n - 1)

\* influence scores are floats; the model keeps them exactly, as integer
\* multiples of 1 / Unit, which holds the tenths of the type weights and the
\* weights |S|!(n-|S|-1)!/n! of every n up to the number of agents
Unit == 10 * Fact(Cardinality(Agents))

RECURSIVE SumOver(_, _)
\* sum(f(x) for x in set)
SumOver(set, f) ==
    IF set = {} THEN 0
    ELSE LET x == CHOOSE y \in set : TRUE IN f[x] + SumOver(set \ {x}, f)

RECURSIVE SumSeq(_)
SumSeq(l) == IF l = <<>> THEN 0 ELSE Head(l) + SumSeq(Tail(l))

\* a value function: v(S) = the weights of the members of S, plus a bonus
\* when S has two members or more
Games == [w : [Agents -> 0..MaxValue], bonus : 0..MaxValue]
ValueOf(game, S) ==
    SumOver(S, game.w) + (IF Cardinality(S) >= 2 THEN game.bonus ELSE 0)

\* mutant: the marginal contributions are summed without their weights
MarginalContributionUnweighted(agent_id, all_agents, game) ==
    LET others == all_agents \ {agent_id}
        term == [S \in SUBSET others |->
                    (ValueOf(game, S \cup {agent_id}) - ValueOf(game, S)) * Unit]
    IN  IF all_agents = {} THEN 0 ELSE SumOver(SUBSET others, term)

\* ShapleyCalculator.calculate_marginal_contribution, in units of 1 / Unit:
\* the sum over the subsets S of the other agents of
\* |S|!(n-|S|-1)!/n! * (v(S + i) - v(S))
MarginalContribution(agent_id, all_agents, game) ==
    LET n == Cardinality(all_agents)
        others == all_agents \ {agent_id}
        term == [S \in SUBSET others |->
                    (Fact(Cardinality(S)) * Fact(n - Cardinality(S) - 1)
                        * (ValueOf(game, S \cup {agent_id}) - ValueOf(game, S))
                        * Unit) \div Fact(n)]
    IN  IF n = 0 THEN 0 ELSE SumOver(SUBSET others, term)

ActionTypes == {"reasoning", "decision", "verification", "delegation", "agent"}

\* mutant: every action type weighs 1.0
TypeWeightFlat(action_type) == 10

\* type_weights.get(action_type, 1.0), in tenths
TypeWeight(action_type) ==
    CASE action_type = "reasoning" -> 12
      [] action_type = "decision" -> 15
      [] action_type = "verification" -> 10
      [] action_type = "delegation" -> 8
      [] OTHER -> 10

\* the default influence: base_score * weight
DefaultInfluence(action_type, success) ==
    (IF success THEN 1 ELSE 0) * TypeWeight(action_type) * (Unit \div 10)

NoWorkflow == [state |-> None, agents |-> {}, restart_count |-> 0]
NoGame == [agents |-> {}, w |-> [a \in Agents |-> 0], bonus |-> 0]
\* no restart reason
NoReason == [kind |-> None, agent |-> None]
NoCredit == [op |-> None, workflow_id |-> None, agent_id |-> None,
             attempts |-> [wf \in Workflows |-> None],
             reasons |-> [wf \in Workflows |-> NoReason],
             final_credits |-> [a \in Agents |-> 0], total_contributions |-> 0]

ContributorsOf(contribs) == {contribs[i].agent_id : i \in 1..Len(contribs)}

\* Event(...) as the credit operations build it
MkCreditEvent(id, type, name, wf, success, score, reason) ==
    [event_id |-> id, event_type |-> type, service_name |-> name,
     service_id |-> None, old_status |-> None, new_status |-> None,
     workflow_id |-> wf, success |-> success, contribution_score |-> score,
     reason |-> reason]

\* add_event with no handler registered and no subscriber: the append under
\* the store lock, which is free; dispatch and the publishes find nothing to
\* do and do not suspend
AddEventNow(e) ==
    /\ store_lock = "free"
    /\ events' = RingAppend(events, e)
    /\ history' = Append(history, e)
    /\ next_event_id' = next_event_id + 1
    /\ UNCHANGED <<store_lock, ae_pc, ae_event>>

\* the store's side of record_contribution: the influence, the append, the
\* metrics and the agent_contribution event
StoreContribution(agent_id, wf, action_type, success, with_game) ==
    LET contribs == workflow_contributions[wf]
        all_agents == ContributorsOf(contribs) \cup {agent_id}
        influence == IF with_game
                     THEN MarginalContribution(agent_id, all_agents, sh_game)
                     ELSE DefaultInfluence(action_type, success)
        c == [agent_id |-> agent_id, action_type |-> action_type,
              success |-> success, influence_score |-> influence]
    IN  /\ Len(contribs) < MaxContribs
        /\ workflow_contributions' = [workflow_contributions EXCEPT ![wf] = Append(@, c)]
        /\ es_metrics' = [es_metrics EXCEPT
                ![agent_id].total_contributions = @ + 1,
                ![agent_id].successful_contributions = @ + (IF success THEN 1 ELSE 0),
                ![agent_id].total_influence = @ + influence]
        /\ recorded' = [recorded EXCEPT ![wf] = Append(@, c)]
        /\ AddEventNow(MkCreditEvent(next_event_id, "agent_contribution", agent_id,
                                     wf, success, influence, None))

\* EventStore.record_contribution(agent_id, workflow_id, turn, action_type,
\* latency, success, value_function)
RecordContribution(agent_id, wf, action_type, success, with_game) ==
    /\ with_game => agent_id \in sh_game.agents
    /\ StoreContribution(agent_id, wf, action_type, success, with_game)
    /\ credit_last' = [NoCredit EXCEPT !.op = "record", !.workflow_id = wf,
                                       !.agent_id = agent_id]
    /\ UNCHANGED <<active_workflows, sh_game, sh_phi>>

\* a caller picks the agents of a workflow and a value function
SetGame(A, game) ==
    /\ sh_game = NoGame
    /\ A # {}
    /\ \A a \in Agents \ A : game.w[a] = 0
    /\ sh_game' = [agents |-> A, w |-> game.w, bonus |-> game.bonus]
    /\ UNCHANGED <<workflow_contributions, active_workflows, es_metrics,
                   sh_phi, recorded, credit_last>>

\* shapley_calculator.calculate_marginal_contribution(i, wf, all_agents, v)
\* with all_agents the agents of the workflow
Calculate(agent_id) ==
    /\ agent_id \in sh_game.agents
    /\ sh_phi[agent_id] = <<>>
    /\ sh_phi' = [sh_phi EXCEPT ![agent_id] =
                      <<MarginalContribution(agent_id, sh_game.agents, sh_game)>>]
    /\ UNCHANGED <<workflow_contributions, active_workflows, es_metrics,
                   sh_game, recorded, credit_last>>

CreditInit ==
    /\ workflow_contributions = [wf \in Workflows |-> <<>>]
    /\ active_workflows = [wf \in Workflows |-> NoWorkflow]
    /\ es_metrics = [a \in Agents |-> [total_contributions |-> 0,
                                         successful_contributions |-> 0,
                                         total_influence |-> 0]]
    /\ sh_game = NoGame
    /\ sh_phi = [a \in Agents |-> <<>>]
    /\ recorded = [wf \in Workflows |-> <<>>]
    /\ credit_last = NoCredit

\* =========================================================================
\* DeliberationManager: the restart rate limit
\* =========================================================================
max_restarts_per_hour == 5
cooldown_seconds == 60
HourSeconds == 3600

RECURSIVE RecentRestarts(_, _)
\* [r for r in restart_history[wf] if (now - r).total_seconds() < 3600]
RecentRestarts(rs, t) ==
    IF rs = <<>> THEN <<>>
    ELSE (IF t - Head(rs) < HourSeconds THEN <<Head(rs)>> ELSE <<>>)
             \o RecentRestarts(Tail(rs), t)

MaxOf(l) == CHOOSE x \in SeqRange(l) : \A y \in SeqRange(l) : y <= x

\* mutant: the cooldown is not checked
CanRestartNoCooldown(rs, t) ==
    Len(RecentRestarts(rs, t)) < max_restarts_per_hour

\* DeliberationManager.can_restart
CanRestart(rs, t) ==
    LET recent_restarts == RecentRestarts(rs, t)
    IN  /\ ~(Len(recent_restarts) >= max_restarts_per_hour)
        /\ ~(recent_restarts # <<>> /\ t - MaxOf(recent_restarts) < cooldown_seconds)

NoAttempts == [wf \in Workflows |-> None]

\* the part of the state a restart works on, and the events it adds
CreditState ==
    [rh |-> restart_history, wc |-> workflow_contributions, rec |-> recorded,
     aw |-> active_workflows, evs |-> <<>>, attempts |-> NoAttempts]

\* EventStore.trigger_deliberation_restart: the event, then the contributions
\* are cleared and the workflow's record, when there is one, is updated
DeliberationRestart(st, wf, reason) ==
    [st EXCEPT
        !.evs = Append(@, [type |-> "deliberation_restarted", name |-> None,
                           wf |-> wf, score |-> Len(st.wc[wf]), reason |-> reason]),
        !.wc[wf] = <<>>,
        !.rec[wf] = <<>>,
        !.aw[wf] = IF @ # NoWorkflow
                   THEN [@ EXCEPT !.state = "restarted", !.restart_count = @ + 1]
                   ELSE @]

\* DeliberationManager.trigger_restart(workflow_id, reason, affected_agents)
\* at time t
TriggerRestartOn(st, wf, reason, t) ==
    IF CanRestart(st.rh[wf], t)
    THEN DeliberationRestart([st EXCEPT !.rh[wf] = Append(@, t),
                                        !.attempts[wf] = "granted"], wf, reason)
    ELSE [st EXCEPT !.attempts[wf] = "denied"]

RECURSIVE AppendAll(_, _, _, _)
\* add_event for each of the events, in order
AppendAll(evs, hist, id, specs) ==
    IF specs = <<>> THEN [events |-> evs, history |-> hist, next |-> id]
    ELSE LET x == Head(specs)
             e == MkCreditEvent(id, x.type, x.name, x.wf, None, x.score, x.reason)
         IN  AppendAll(RingAppend(evs, e), Append(hist, e), id + 1, Tail(specs))

\* the state after the restarts and the events of st
ApplyCredit(st) ==
    LET r == AppendAll(events, history, next_event_id, st.evs)
    IN  /\ store_lock = "free"
        /\ restart_history' = st.rh
        /\ workflow_contributions' = st.wc
        /\ recorded' = st.rec
        /\ active_workflows' = st.aw
        /\ events' = r.events
        /\ history' = r.history
        /\ next_event_id' = r.next
        /\ UNCHANGED <<store_lock, ae_pc, ae_event, es_metrics, sh_game, sh_phi>>

\* a caller of the DeliberationManager asks for a restart
TriggerRestart(wf, reason) ==
    LET st == TriggerRestartOn(CreditState, wf, reason, utcnow)
    IN  /\ ApplyCredit(st)
        /\ credit_last' = [NoCredit EXCEPT !.op = "restart", !.workflow_id = wf,
                                           !.attempts = st.attempts]
        /\ UNCHANGED <<utcnow, hm_metrics, agent_history, workflow_health,
                       advances, ticks>>

\* time passes
ClockAdvance(d) ==
    /\ advances < MaxAdvances
    /\ utcnow' = utcnow + d
    /\ advances' = advances + 1
    /\ UNCHANGED <<restart_history, hm_metrics, agent_history, workflow_health, ticks>>

\* EventStore.start_workflow
StartWorkflow(wf, agents) ==
    /\ active_workflows[wf] = NoWorkflow
    /\ active_workflows' = [active_workflows EXCEPT ![wf] =
                                [state |-> "running", agents |-> agents,
                                 restart_count |-> 0]]
    /\ AddEventNow(MkCreditEvent(next_event_id, "workflow_started", None, wf,
                                 None, None, None))
    /\ credit_last' = [NoCredit EXCEPT !.op = "start", !.workflow_id = wf]
    /\ UNCHANGED <<workflow_contributions, es_metrics, sh_game, sh_phi, recorded>>

\* the influence of agent a summed over contributions, as complete_workflow
\* and get_workflow_report(wf)['agent_stats'][a]['influence'] compute it
ReportedInfluence(contribs, a) ==
    SumSeq([i \in 1..Len(contribs) |->
               IF contribs[i].agent_id = a THEN contribs[i].influence_score ELSE 0])

\* EventStore.complete_workflow(workflow_id, success)
CompleteWorkflow(wf, success) ==
    LET contributions == workflow_contributions[wf]
        final_credits == [a \in Agents |-> ReportedInfluence(contributions, a)]
    IN  /\ AddEventNow(MkCreditEvent(next_event_id,
                IF success THEN "workflow_completed" ELSE "workflow_failed",
                None, wf, success, None, None))
        /\ active_workflows' =
              IF active_workflows[wf] # NoWorkflow
              THEN [active_workflows EXCEPT
                        ![wf].state = IF success THEN "completed" ELSE "failed"]
              ELSE active_workflows
        /\ credit_last' = [NoCredit EXCEPT
                               !.op = "complete", !.workflow_id = wf,
                               !.final_credits = final_credits,
                               !.total_contributions = Len(contributions)]
        /\ UNCHANGED <<workflow_contributions, es_metrics, sh_game, sh_phi, recorded>>

\* =========================================================================
\* WorkflowGraph: nodes, edges, validation
\* =========================================================================
START == "__start__"
END == "__end__"

\* the nodes a caller adds, all of type agent, and the service each invokes
UserNodes == {"A", "B"}
\* the nodes of the fan-out and join workflow: N1, N2 and N3 are agents, N4
\* is an aggregator with config {'aggregation': 'merge'} and no service
ScenarioNodes == {"N1", "N2", "N3", "N4"}
ServiceOf == [A |-> "a", B |-> "b", N1 |-> "a", N2 |-> "b", N3 |-> "c", N4 |-> None]
NodeTypeOf == [n \in UserNodes \cup ScenarioNodes |->
                  IF n = "N4" THEN "aggregator" ELSE "agent"]
\* what the service of an agent node returns: a dict, as its set of items
OutputOf == [A |-> {<<"a", 1>>}, B |-> {<<"b", 1>>}, N1 |-> {<<"x", 1>>},
             N2 |-> {<<"y", 2>>}, N3 |-> {<<"z", 3>>}, N4 |-> {}]
\* WorkflowGraph.nodes: the implicit start and end nodes and the added ones
NodeIds(nodes) == {START, END} \cup nodes

\* the edges a caller adds, in this order. No two of them have the same
\* endpoints, so no edge id (source_to_target) is used twice. C is never
\* added as a node.
CandidateEdges ==
    << [source |-> START, target |-> "A", edge_type |-> "sequential",  priority |-> 0],
       [source |-> START, target |-> "B", edge_type |-> "parallel",    priority |-> 0],
       [source |-> START, target |-> END, edge_type |-> "parallel",    priority |-> 0],
       [source |-> "A",   target |-> "B", edge_type |-> "fallback",    priority |-> 0],
       [source |-> "A",   target |-> END, edge_type |-> "sequential",  priority |-> 0],
       [source |-> "A",   target |-> "C", edge_type |-> "sequential",  priority |-> 1],
       [source |-> "B",   target |-> "A", edge_type |-> "sequential",  priority |-> 1],
       [source |-> "B",   target |-> END, edge_type |-> "conditional", priority |-> 0] >>

\* the edges of the fan-out and join workflow, in the order they are added:
\* start -> N1 -> {parallel: N2, N3} -> N4 -> end
ScenarioEdges ==
    << [source |-> START, target |-> "N1", edge_type |-> "sequential", priority |-> 0],
       [source |-> "N1",  target |-> "N2", edge_type |-> "parallel",   priority |-> 0],
       [source |-> "N1",  target |-> "N3", edge_type |-> "parallel",   priority |-> 0],
       [source |-> "N2",  target |-> "N4", edge_type |-> "sequential", priority |-> 0],
       [source |-> "N3",  target |-> "N4", edge_type |-> "sequential", priority |-> 0],
       [source |-> "N4",  target |-> END,  edge_type |-> "sequential", priority |-> 0] >>

\* WorkflowGraph.adjacency[node]: the edges out of node, in insertion order
Adjacency(edges, node) == SelectSeq(edges, LAMBDA e : e.source = node)

RECURSIVE Dfs(_, _, _, _)
RECURSIVE DfsEdges(_, _, _, _)
\* the inner dfs of _has_cycle: whether a cycle was found, and visited
Dfs(edges, node, visited, rec_stack) ==
    DfsEdges(edges, Adjacency(edges, node), visited \cup {node}, rec_stack \cup {node})

DfsEdges(edges, adj, visited, rec_stack) ==
    IF adj = <<>> THEN [found |-> FALSE, visited |-> visited]
    ELSE LET target == Head(adj).target
         IN  IF target \notin visited
             THEN LET r == Dfs(edges, target, visited, rec_stack)
                  IN  IF r.found THEN r
                      ELSE DfsEdges(edges, Tail(adj), r.visited, rec_stack)
             ELSE IF target \in rec_stack
             THEN [found |-> TRUE, visited |-> visited]
             ELSE DfsEdges(edges, Tail(adj), visited, rec_stack)

RECURSIVE HasCycleFrom(_, _, _)
HasCycleFrom(edges, todo, visited) ==
    IF todo = <<>> THEN FALSE
    ELSE IF Head(todo) \in visited THEN HasCycleFrom(edges, Tail(todo), visited)
    ELSE LET r == Dfs(edges, Head(todo), visited, {})
         IN  r.found \/ HasCycleFrom(edges, Tail(todo), r.visited)

\* the nodes in the order of the nodes dict
NodeOrder(nodes) ==
    <<START, END>>
        \o SelectSeq(<<"A", "B", "N1", "N2", "N3", "N4">>, LAMBDA n : n \in nodes)

\* WorkflowGraph._has_cycle
HasCycle(nodes, edges) == HasCycleFrom(edges, NodeOrder(nodes), {})

\* mutant: only the start node needs an outgoing edge
NoOutgoingStartOnly(nodes, edges) ==
    {n \in {START} : Adjacency(edges, n) = <<>>}

\* the nodes other than the end node that have no outgoing edge
NoOutgoing(nodes, edges) ==
    {n \in NodeIds(nodes) \ {END} : Adjacency(edges, n) = <<>>}

\* WorkflowGraph.validate: the kinds of the errors it returns
Validate(nodes, edges) ==
    (IF Adjacency(edges, START) = <<>> THEN {"no_entry_point"} ELSE {})
    \cup (IF NoOutgoing(nodes, edges) # {} THEN {"no_outgoing_edges"} ELSE {})
    \cup (IF HasCycle(nodes, edges) THEN {"cycle"} ELSE {})
    \cup (IF \E i \in 1..Len(edges) : edges[i].target \notin NodeIds(nodes)
          THEN {"target_not_a_node"} ELSE {})
    \cup (IF \E i \in 1..Len(edges) : edges[i].source \notin NodeIds(nodes)
          THEN {"source_not_a_node"} ELSE {})

\* WorkflowGraph.add_node
AddNode(n) ==
    /\ ex_last.op = None
    /\ n \notin g_nodes
    /\ g_nodes' = g_nodes \cup {n}
    /\ UNCHANGED <<g_edges, ex_last>>

\* WorkflowGraph.add_edge for the i-th of the edges cands; the edges are
\* added in the order of cands
AddEdgeOf(cands, i) ==
    /\ ex_last.op = None
    /\ \A j \in 1..Len(g_edges) :
          \E k \in 1..(i - 1) : cands[k] = g_edges[j]
    /\ g_edges' = Append(g_edges, cands[i])
    /\ UNCHANGED <<g_nodes, ex_last>>

\* WorkflowGraph.add_edge for the i-th candidate edge
AddEdge(i) == Len(g_edges) < MaxEdges /\ AddEdgeOf(CandidateEdges, i)

\* =========================================================================
\* WorkflowExecutor
\* =========================================================================
MaxPriority == 1

RECURSIVE SortedByPriority(_, _)
\* sorted(edges, key=priority, reverse=True): a stable sort
SortedByPriority(adj, p) ==
    IF p < 0 THEN <<>>
    ELSE SelectSeq(adj, LAMBDA e : e.priority = p) \o SortedByPriority(adj, p - 1)

RECURSIVE NextOf(_, _)
\* the loop of get_next_nodes over the sorted edges; cond is what the
\* conditions of the conditional edges return
NextOf(sorted_edges, cond) ==
    IF sorted_edges = <<>> THEN <<>>
    ELSE LET edge == Head(sorted_edges)
         IN  CASE edge.edge_type = "sequential" -> <<edge.target>>
               [] edge.edge_type = "conditional" ->
                      IF cond THEN <<edge.target>> ELSE NextOf(Tail(sorted_edges), cond)
               [] edge.edge_type = "parallel" ->
                      <<edge.target>> \o NextOf(Tail(sorted_edges), cond)
               [] OTHER -> NextOf(Tail(sorted_edges), cond)

\* WorkflowGraph.get_next_nodes
GetNextNodes(edges, node, cond) ==
    NextOf(SortedByPriority(Adjacency(edges, node), MaxPriority), cond)

\* WorkflowGraph.get_parallel_targets
GetParallelTargets(edges, node) ==
    LET par == SelectSeq(Adjacency(edges, node), LAMBDA e : e.edge_type = "parallel")
    IN  [i \in 1..Len(par) |-> par[i].target]

\* WorkflowExecutor._get_fallback_target
GetFallbackTarget(edges, node) ==
    LET fb == SelectSeq(Adjacency(edges, node), LAMBDA e : e.edge_type = "fallback")
    IN  IF fb = <<>> THEN None ELSE fb[1].target

\* what the service of a node does when it is invoked: it returns, it
\* raises, or the execution is cancelled while it is awaited
Outcomes == {"ok", "raise", "cancel"}

\* a value a node returns or receives: None, a dict as the set of its
\* items, or state.global_state itself
NoneValue == [kind |-> "none", items |-> {}]
DictValue(items) == [kind |-> "dict", items |-> items]
GlobalValue == [kind |-> "global", items |-> {}]

\* the state an execution starts from: the nodes entered, the nodes whose
\* _execute_node ran (execution_count), WorkflowState.completed_nodes,
\* current_nodes, node_outputs and the keys of global_state, the
\* contributions recorded, the edges followed, how the coroutine ends and
\* the value it returns
NoExec == [visited |-> <<>>, executed |-> <<>>, completed |-> {}, current |-> {},
           node_outputs |-> [n \in {START, END} \cup UserNodes \cup ScenarioNodes |->
                                NoneValue],
           global_state |-> {"input"},
           contribs |-> <<>>, log |-> <<>>, status |-> "ok", ret |-> NoneValue]

Followed(st, from, to, via) ==
    [st EXCEPT !.log = Append(@, [from |-> from, to |-> to, via |-> via])]

\* dict.update(items)
Update(d, items) ==
    {p \in d : \A q \in items : q[1] # p[1]} \cup items

\* the items of a value that is a dict; the values of global_state are not
\* modelled
ItemsOf(st, v) ==
    IF v.kind = "global" THEN {<<k, 0>> : k \in st.global_state} ELSE v.items

RECURSIVE MergeInputs(_, _, _)
\* the 'merge' loop of _aggregate_inputs over {pred: node_outputs[pred]}
MergeInputs(st, preds, result) ==
    IF preds = <<>> THEN result
    ELSE LET v == st.node_outputs[Head(preds)]
         IN  MergeInputs(st, Tail(preds),
                         IF v.kind = "none" THEN Update(result, {<<Head(preds), 0>>})
                         ELSE Update(result, ItemsOf(st, v)))

\* WorkflowExecutor._get_node_input: the completed predecessors of node
Predecessors(edges, st, node) ==
    LET into == SelectSeq(edges, LAMBDA e : e.target = node /\ e.source \in st.completed)
    IN  [i \in 1..Len(into) |-> into[i].source]

\* WorkflowExecutor._aggregate_inputs with aggregation 'merge'
AggregateInputs(edges, st, node) ==
    LET predecessors == Predecessors(edges, st, node)
    IN  IF predecessors = <<>> THEN NoneValue
        ELSE IF Len(predecessors) = 1
        THEN IF st.node_outputs[predecessors[1]].kind = "none" THEN NoneValue
             ELSE DictValue(ItemsOf(st, st.node_outputs[predecessors[1]]))
        ELSE DictValue(MergeInputs(st, predecessors, {}))

Reverse(seq) == [i \in 1..Len(seq) |-> seq[Len(seq) + 1 - i]]

RECURSIVE ExecuteFromNode(_, _, _, _, _, _, _)
RECURSIVE ExecuteNode(_, _, _, _, _, _, _)
RECURSIVE Gather(_, _, _, _, _, _, _, _, _, _)

\* _execute_from_node after the node itself was executed, st2 being the
\* state it left
ContinueFromNode(nodes, edges, out, cond, rev, st2, node_id) ==
    LET st3 == [st2 EXCEPT !.node_outputs[node_id] = st2.ret,
                           !.completed = @ \cup {node_id},
                           !.current = @ \ {node_id}]
        next_nodes == GetNextNodes(edges, node_id, cond)
        parallel_targets == GetParallelTargets(edges, node_id)
    IN  IF st2.status # "ok" THEN st2
        ELSE IF node_id = END THEN [st3 EXCEPT !.ret = GlobalValue]
        ELSE IF next_nodes = <<>> THEN st3
        ELSE IF Len(parallel_targets) > 1
        THEN Gather(nodes, edges, out, cond, rev, st3, node_id,
                    IF rev THEN Reverse(parallel_targets) ELSE parallel_targets,
                    FALSE, NoneValue)
        ELSE ExecuteFromNode(nodes, edges, out, cond, rev,
                             Followed(st3, node_id, next_nodes[1], "next"),
                             next_nodes[1])

\* WorkflowExecutor._execute_from_node
ExecuteFromNode(nodes, edges, out, cond, rev, st, node_id) ==
    IF node_id \notin NodeIds(nodes) THEN [st EXCEPT !.status = "raise"]
    ELSE LET st1 == [st EXCEPT !.current = @ \cup {node_id},
                               !.visited = Append(@, node_id)]
         IN  ContinueFromNode(nodes, edges, out, cond, rev,
                 IF node_id \notin {START, END}
                 THEN ExecuteNode(nodes, edges, out, cond, rev, st1, node_id)
                 ELSE [st1 EXCEPT !.ret = st1.node_outputs[node_id]],
                 node_id)

\* WorkflowExecutor._execute_node. An agent node invokes its service and
\* records the contribution, and on an exception the fallback target is
\* executed; an aggregator node aggregates the outputs of its predecessors
ExecuteNode(nodes, edges, out, cond, rev, st, node_id) ==
    LET st1 == [st EXCEPT !.executed = Append(@, node_id)]
        fallback_target == GetFallbackTarget(edges, node_id)
        failed == [st1 EXCEPT !.contribs =
                      Append(@, [agent_id |-> ServiceOf[node_id], success |-> FALSE])]
    IN  CASE NodeTypeOf[node_id] = "aggregator" ->
                 [st1 EXCEPT !.ret = AggregateInputs(edges, st1, node_id)]
          [] out[node_id] = "ok" ->
                 [st1 EXCEPT !.contribs =
                      Append(@, [agent_id |-> ServiceOf[node_id], success |-> TRUE]),
                             !.ret = DictValue(OutputOf[node_id])]
          [] out[node_id] = "cancel" -> [st1 EXCEPT !.status = "cancel"]
          [] OTHER ->
                 IF fallback_target # None
                 THEN ExecuteFromNode(nodes, edges, out, cond, rev,
                                      Followed(failed, node_id, fallback_target, "fallback"),
                                      fallback_target)
                 ELSE [failed EXCEPT !.status = "raise"]

\* the state after the branch of the first of targets ended in state r
Gathered(nodes, edges, out, cond, rev, r, node_id, targets, any_ok, first) ==
    IF r.status = "cancel" THEN r
    ELSE Gather(nodes, edges, out, cond, rev, [r EXCEPT !.status = "ok"],
                node_id, Tail(targets), any_ok \/ r.status = "ok",
                IF r.status = "ok" /\ (rev \/ ~any_ok) THEN r.ret ELSE first)

\* asyncio.gather(*tasks, return_exceptions=True) over the parallel targets
\* and the scan of its results. The branches, each of which is suspended
\* while its service is awaited, end one after the other in the order of
\* targets: the order of the tasks, or the reverse when rev. The first
\* result in task order that is no exception is returned, and results[0] is
\* raised when all are exceptions. A cancellation of the execution ends the
\* gather.
Gather(nodes, edges, out, cond, rev, st, node_id, targets, any_ok, first) ==
    IF targets = <<>>
    THEN [st EXCEPT !.status = IF any_ok THEN "ok" ELSE "raise",
                    !.global_state = @ \cup {"parallel_results"},
                    !.ret = first]
    ELSE Gathered(nodes, edges, out, cond, rev,
                  ExecuteFromNode(nodes, edges, out, cond, rev,
                                  Followed(st, node_id, Head(targets), "parallel"),
                                  Head(targets)),
                  node_id, targets, any_ok, first)

NoExecution == [op |-> None, success |-> FALSE, errors |-> {}, out |-> <<>>,
                cond |-> FALSE, rev |-> FALSE, run |-> NoExec]

\* the events of an execution: workflow_started, one agent_contribution for
\* each contribution, and the completion unless the execution was cancelled
ExecutionEvents(wf, run) ==
    <<[type |-> "workflow_started", name |-> None, wf |-> wf, score |-> None,
       reason |-> None]>>
    \o [i \in 1..Len(run.contribs) |->
           [type |-> "agent_contribution", name |-> run.contribs[i].agent_id,
            wf |-> wf, reason |-> None,
            score |-> DefaultInfluence("agent", run.contribs[i].success)]]
    \o (IF run.status = "cancel" THEN <<>>
        ELSE <<[type |-> IF run.status = "ok" THEN "workflow_completed"
                         ELSE "workflow_failed",
                name |-> None, wf |-> wf, score |-> None, reason |-> None]>>)

\* the contributions record_contribution appends for an execution
ExecutionContributions(run) ==
    [i \in 1..Len(run.contribs) |->
        [agent_id |-> run.contribs[i].agent_id, action_type |-> "agent",
         success |-> run.contribs[i].success,
         influence_score |-> DefaultInfluence("agent", run.contribs[i].success)]]

\* the agent_metrics of the store after the contributions cs
MetricsAfter(m, cs) ==
    [a \in Agents |->
        LET mine == SelectSeq(cs, LAMBDA c : c.agent_id = a)
        IN  [total_contributions |-> m[a].total_contributions + Len(mine),
             successful_contributions |-> m[a].successful_contributions
                 + Len(SelectSeq(mine, LAMBDA c : c.success)),
             total_influence |-> m[a].total_influence
                 + SumSeq([i \in 1..Len(mine) |-> mine[i].influence_score])]]

\* WorkflowExecutor.execute(workflow) for the graph, as workflow wf, with the
\* outcomes out of the services, cond the value of the conditions and rev
\* the order in which parallel branches end
Execute(wf, out, cond, rev) ==
    LET errors == Validate(g_nodes, g_edges)
        run == ExecuteFromNode(g_nodes, g_edges, out, cond, rev, NoExec, START)
        cs == ExecutionContributions(run)
        r == AppendAll(events, history, next_event_id, ExecutionEvents(wf, run))
    IN  /\ ex_last.op = None
        /\ store_lock = "free"
        /\ IF errors # {}
           THEN /\ ex_last' = [NoExecution EXCEPT !.op = "execute", !.errors = errors,
                                                  !.out = out, !.cond = cond,
                                                  !.rev = rev]
                /\ UNCHANGED <<storeVars, creditVars>>
           ELSE /\ ex_last' = [op |-> "execute", success |-> run.status = "ok",
                               errors |-> {}, out |-> out, cond |-> cond, rev |-> rev,
                               run |-> run]
                /\ active_workflows' = [active_workflows EXCEPT ![wf] =
                      [state |-> CASE run.status = "ok" -> "completed"
                                   [] run.status = "raise" -> "failed"
                                   [] OTHER -> "running",
                       agents |-> {ServiceOf[n] : n \in g_nodes} \ {None},
                       restart_count |-> 0]]
                /\ workflow_contributions' =
                      [workflow_contributions EXCEPT ![wf] = @ \o cs]
                /\ recorded' = [recorded EXCEPT ![wf] = @ \o cs]
                /\ es_metrics' = MetricsAfter(es_metrics, cs)
                /\ events' = r.events
                /\ history' = r.history
                /\ next_event_id' = r.next
                /\ credit_last' = [NoCredit EXCEPT !.op = "execute", !.workflow_id = wf]
                /\ UNCHANGED <<store_lock, ae_pc, ae_event, sh_game, sh_phi>>
        /\ UNCHANGED <<g_nodes, g_edges>>

WfInit ==
    /\ g_nodes = {}
    /\ g_edges = <<>>
    /\ ex_last = NoExecution

\* =========================================================================
\* LazyAgentDetector and HealthManager: contributions, the periodic analysis
\* and the restart arbitration
\* =========================================================================
window_size == 100
\* lazy_threshold = 0.1, as a fraction
LazyThresholdNum == 1
LazyThresholdDen == 10

RECURSIVE Gcd(_, _)
Gcd(x, y) == IF y = 0 THEN x ELSE Gcd(y, x % y)
\* fractions <<numerator, denominator>> with a positive denominator
Rat(n, d) == LET g == Gcd(IF n < 0 THEN -n ELSE n, d)
             IN  IF g = 0 THEN <<0, 1>> ELSE <<n \div g, d \div g>>
RatAdd(x, y) == Rat(x[1] * y[2] + y[1] * x[2], x[2] * y[2])
RatLess(x, y) == x[1] * y[2] < y[1] * x[2]
RECURSIVE RatSum(_)
RatSum(l) == IF l = <<>> THEN <<0, 1>> ELSE RatAdd(Head(l), RatSum(Tail(l)))
RECURSIVE RatSumOver(_, _)
RatSumOver(set, f) ==
    IF set = {} THEN <<0, 1>>
    ELSE LET x == CHOOSE y \in set : TRUE
         IN  RatAdd(f[x], RatSumOver(set \ {x}, f))
\* x / n for a positive integer n, and x / y
RatDiv(x, n) == Rat(x[1], x[2] * n)
RatQuot(x, y) == Rat(x[1] * y[2], x[2] * y[1])
\* sum(h) / len(h)
RatAvg(l) == RatDiv(RatSum(l), Len(l))

\* LazyAgentDetector.record_contribution
DetectorRecord(hist, agent_id, influence) ==
    [hist EXCEPT ![agent_id] = LastN(Append(@, influence), window_size)]

\* analyze_agent: all_avgs and global_avg = sum(all_avgs) / len(all_avgs)
GlobalAvg(hist) ==
    LET tracked == {a \in Agents : hist[a] # <<>>}
        all_avgs == [a \in tracked |-> RatAvg(hist[a])]
    IN  RatDiv(RatSumOver(tracked, all_avgs), Cardinality(tracked))

\* analyze_agent: the status for relative_contribution rel
StatusOf(rel) ==
    IF RatLess(rel, <<LazyThresholdNum, LazyThresholdDen>>) THEN "lazy"
    ELSE IF RatLess(<<LazyThresholdDen, LazyThresholdNum>>, rel) THEN "dominant"
    ELSE IF RatLess(rel, <<1, 2>>) THEN "degraded"
    ELSE "healthy"

\* analyze_agent: relative_contribution = avg_contribution / global_avg when
\* global_avg > 0
RelativeStatus(avg_contribution, global_avg) ==
    IF global_avg[1] > 0 THEN StatusOf(RatQuot(avg_contribution, global_avg))
    ELSE "healthy"

\* LazyAgentDetector.analyze_agent
AnalyzeAgent(hist, agent_id) ==
    IF hist[agent_id] = <<>> THEN "starting"
    ELSE RelativeStatus(RatAvg(hist[agent_id]), GlobalAvg(hist))

\* LazyAgentDetector.get_lazy_agents
GetLazyAgents(hist, agents) ==
    FilterSeq(agents, {a \in Agents : AnalyzeAgent(hist, a) = "lazy"})

\* LazyAgentDetector.get_dominant_agent
GetDominantAgent(hist, agents) ==
    LET dom == {i \in 1..Len(agents) : AnalyzeAgent(hist, agents[i]) = "dominant"}
    IN  IF dom = {} THEN None
        ELSE agents[CHOOSE i \in dom : \A j \in dom : i <= j]

NoHealth == [tracked |-> FALSE, position |-> 0, agents |-> <<>>,
             contribution_balance |-> [a \in Agents |-> 0], restart_count |-> 0,
             lazy_agents |-> <<>>, dominant_agent |-> None, health_score |-> <<1, 1>>]

\* AgentPerformanceMetrics(agent_id)
NewMetrics(agent_id) ==
    [agent_id |-> agent_id, contribution_count |-> 0,
     successful_contributions |-> 0, total_influence_score |-> 0,
     lazy_detections |-> 0, health_status |-> "starting"]

MetricsIndex(ms, agent_id) ==
    IF \E i \in 1..Len(ms) : ms[i].agent_id = agent_id
    THEN CHOOSE i \in 1..Len(ms) : ms[i].agent_id = agent_id
    ELSE 0

\* self.agent_metrics.get(a, AgentPerformanceMetrics(a))
MetricsOf(ms, agent_id) ==
    IF MetricsIndex(ms, agent_id) = 0 THEN NewMetrics(agent_id)
    ELSE ms[MetricsIndex(ms, agent_id)]

\* AgentPerformanceMetrics.avg_influence
AvgInfluence(m) ==
    IF m.contribution_count = 0 THEN <<0, 1>>
    ELSE Rat(m.total_influence_score, m.contribution_count)

\* HealthManager.register_workflow
RegisterWorkflow(wf, agents) ==
    /\ ~workflow_health[wf].tracked
    /\ workflow_health' = [workflow_health EXCEPT ![wf] =
                               [NoHealth EXCEPT
                                   !.tracked = TRUE, !.agents = agents,
                                   !.position = 1 + Cardinality(
                                       {w \in Workflows : workflow_health[w].tracked})]]
    /\ UNCHANGED <<utcnow, restart_history, hm_metrics, agent_history, advances, ticks>>

\* HealthManager.record_agent_contribution(agent_id, workflow_id,
\* influence_score, success)
RecordAgentContribution(agent_id, wf, influence_score, success) ==
    LET ms == IF MetricsIndex(hm_metrics, agent_id) = 0
              THEN Append(hm_metrics, NewMetrics(agent_id)) ELSE hm_metrics
        i == MetricsIndex(ms, agent_id)
    IN  /\ hm_metrics' = [ms EXCEPT
              ![i].contribution_count = @ + 1,
              ![i].total_influence_score = @ + influence_score,
              ![i].successful_contributions = @ + (IF success THEN 1 ELSE 0)]
        /\ agent_history' = DetectorRecord(agent_history, agent_id, <<influence_score, 1>>)
        /\ workflow_health' =
              IF workflow_health[wf].tracked
              THEN [workflow_health EXCEPT
                        ![wf].contribution_balance[agent_id] = @ + influence_score]
              ELSE workflow_health
        /\ StoreContribution(agent_id, wf, "contribution", success, FALSE)
        /\ credit_last' = [NoCredit EXCEPT !.op = "record", !.workflow_id = wf,
                                           !.agent_id = agent_id]
        /\ UNCHANGED <<active_workflows, sh_game, sh_phi, utcnow, restart_history,
                       advances, ticks>>

RECURSIVE AnalyzeAgentHealth(_, _, _, _)
\* _analyze_agent_health: the agent at position i gets the status the detector
\* returned, and the analysis goes on with the next agent
SetHealthStatus(ms, hist1, i, lazy, status) ==
    LET m == ms[i]
        turned == m.health_status # status /\ status = "lazy"
        m1 == [m EXCEPT !.health_status = status,
                        !.lazy_detections = @ + (IF turned THEN 1 ELSE 0)]
    IN  AnalyzeAgentHealth([ms EXCEPT ![i] = m1], hist1, i + 1,
                           IF turned THEN Append(lazy, m.agent_id) ELSE lazy)

\* HealthManager._analyze_agent_health over agent_metrics.items() from
\* position i: the metrics, the detector history and the agents that turned
\* lazy, for each of which an agent_lazy_detected event is added
AnalyzeAgentHealth(ms, hist, i, lazy) ==
    IF i > Len(ms) THEN [metrics |-> ms, history |-> hist, lazy |-> lazy]
    ELSE LET hist1 == DetectorRecord(hist, ms[i].agent_id, AvgInfluence(ms[i]))
         IN  SetHealthStatus(ms, hist1, i, lazy, AnalyzeAgent(hist1, ms[i].agent_id))

\* the part of _check_workflow_health before the restart decision
RefreshHealth(h, contribs, ms, hist) ==
    LET healthy_agents ==
            Cardinality({i \in 1..Len(h.agents) :
                MetricsOf(ms, h.agents[i]).health_status \in {"healthy", "starting"}})
    IN  [h EXCEPT
            !.contribution_balance =
                [a \in Agents |-> IF a \in ContributorsOf(contribs)
                                  THEN ReportedInfluence(contribs, a) ELSE @[a]],
            !.lazy_agents = GetLazyAgents(hist, h.agents),
            !.dominant_agent = GetDominantAgent(hist, h.agents),
            !.health_score = IF h.agents # <<>>
                             THEN Rat(healthy_agents, Len(h.agents)) ELSE @]

\* DeliberationManager.evaluate_restart_condition: the reason, or NoReason
EvaluateRestartCondition(h) ==
    LET total == SumOver(Agents, h.contribution_balance)
    IN  IF /\ h.dominant_agent # None
           /\ total > 0
           /\ 10 * h.contribution_balance[h.dominant_agent] > 7 * total
        THEN [kind |-> "dominating", agent |-> h.dominant_agent]
        ELSE IF 2 * Len(h.lazy_agents) > Len(h.agents)
        THEN [kind |-> "too_many_lazy", agent |-> None]
        ELSE IF RatLess(h.health_score, <<3, 10>>)
        THEN [kind |-> "low_health", agent |-> None]
        ELSE NoReason

TrackedInOrder ==
    [i \in 1..Cardinality({wf \in Workflows : workflow_health[wf].tracked}) |->
        CHOOSE wf \in Workflows : workflow_health[wf].position = i]

RECURSIVE CheckWorkflowHealth(_, _, _, _, _, _)
\* _check_workflow_health: the restart of the first workflow of order, whose
\* refreshed health is h, when restart_reason is a reason; then the others
RestartIfNeeded(order, wh, st, ms, hist, reasons, h, restart_reason) ==
    LET wf == Head(order)
        st1 == IF restart_reason = NoReason THEN st
               ELSE TriggerRestartOn(st, wf, restart_reason, utcnow)
        h1 == IF st1.attempts[wf] = "granted"
              THEN [h EXCEPT !.restart_count = @ + 1] ELSE h
    IN  CheckWorkflowHealth(Tail(order), [wh EXCEPT ![wf] = h1], st1, ms, hist,
                            [reasons EXCEPT ![wf] = restart_reason])

\* HealthManager._check_workflow_health over workflow_health.items(): for
\* each workflow the refreshed health, the restart decision and the restart
CheckWorkflowHealth(order, wh, st, ms, hist, reasons) ==
    IF order = <<>> THEN [wh |-> wh, st |-> st, reasons |-> reasons]
    ELSE LET h == RefreshHealth(wh[Head(order)], st.wc[Head(order)], ms, hist)
         IN  RestartIfNeeded(order, wh, st, ms, hist, reasons, h,
                             EvaluateRestartCondition(h))

\* one iteration of run_health_checks after the service probes:
\* _analyze_agent_health, then _check_workflow_health
HealthTick ==
    LET a == AnalyzeAgentHealth(hm_metrics, agent_history, 1, <<>>)
        lazy_events == [i \in 1..Len(a.lazy) |->
                           [type |-> "agent_lazy_detected", name |-> a.lazy[i],
                            wf |-> None, score |-> None, reason |-> None]]
        r == CheckWorkflowHealth(TrackedInOrder, workflow_health,
                                 [CreditState EXCEPT !.evs = lazy_events],
                                 a.metrics, a.history, NoCredit.reasons)
    IN  /\ ticks < MaxTicks
        /\ ticks' = ticks + 1
        /\ hm_metrics' = a.metrics
        /\ agent_history' = a.history
        /\ workflow_health' = r.wh
        /\ ApplyCredit(r.st)
        /\ credit_last' = [NoCredit EXCEPT !.op = "tick", !.attempts = r.st.attempts,
                                           !.reasons = r.reasons]
        /\ UNCHANGED <<utcnow, advances>>

HmInit ==
    /\ utcnow = 0
    /\ restart_history = [wf \in Workflows |-> <<>>]
    /\ hm_metrics = <<>>
    /\ agent_history = [a \in Agents |-> <<>>]
    /\ workflow_health = [wf \in Workflows |-> NoHealth]
    /\ advances = 0
    /\ ticks = 0

\* =========================================================================
\* Specifications
\* =========================================================================
vars == <<storeVars, regVars, regGhost, healthVars, cbVars, routerVars, busVars, queryVars, creditVars, hmVars, wfVars, snapVars>>

Init == StoreInit /\ RegInit /\ HealthInit /\ CbInit /\ RouterInit /\ BusInit /\ QueryInit
            /\ CreditInit /\ HmInit /\ WfInit /\ SnapInit

\* ---- the event store under concurrent add_event callers
StoreNext ==
    \/ \E c \in Callers, t \in EventTypes : AddEventCall(c, t) /\ UNCHANGED <<regVars, regGhost, healthVars, cbVars, routerVars, busVars, queryVars, creditVars, hmVars, wfVars, snapVars>>
    \/ \E c \in Callers : AddEventAcquire(c) /\ UNCHANGED <<regVars, regGhost, healthVars, cbVars, routerVars, busVars, queryVars, creditVars, hmVars, wfVars, snapVars>>
    \/ \E c \in Callers : AddEventAppend(c) /\ UNCHANGED <<regVars, regGhost, healthVars, cbVars, routerVars, busVars, queryVars, creditVars, hmVars, wfVars, snapVars>>
    \/ \E c \in Callers : AddEventPublish(c) /\ UNCHANGED <<regVars, regGhost, healthVars, cbVars, routerVars, busVars, queryVars, creditVars, hmVars, wfVars, snapVars>>

SpecStore == Init /\ [][StoreNext]_vars

\* ---- the registry under arbitrary sequences of its calls
RegistryNext ==
    \/ \E n \in Names, h \in Hosts, p \in PortTriples, m \in Manifests :
            Register(n, h, p, m) /\ UNCHANGED <<storeVars, healthVars, cbVars, routerVars, busVars, queryVars, creditVars, hmVars, wfVars, snapVars>>
    \/ \E n \in Names, id \in ServiceIds : Deregister(n, id) /\ UNCHANGED <<storeVars, healthVars, cbVars, routerVars, busVars, queryVars, creditVars, hmVars, wfVars, snapVars>>
    \/ \E n \in Names : GetService(n) /\ UNCHANGED <<storeVars, healthVars, cbVars, routerVars, busVars, queryVars, creditVars, hmVars, wfVars, snapVars>>
    \/ \E n \in Names, id \in ServiceIds, s \in {"healthy", "unhealthy"} :
            UpdateServiceHealth(n, id, s) /\ UNCHANGED <<storeVars, healthVars, cbVars, routerVars, busVars, queryVars, creditVars, hmVars, wfVars, snapVars>>

SpecRegistry == Init /\ [][RegistryNext]_vars

\* ---- a caller that holds the dict list_services returned while the
\* registry is registered with, deregistered from and updated
snapRest == <<storeVars, healthVars, cbVars, routerVars, busVars, queryVars,
              creditVars, hmVars, wfVars>>
SnapNames == {"svc-a"}
SnapPortTriples == {<<1, 1, 1>>, <<2, 2, 2>>, <<3, 3, 3>>}

SnapshotNext ==
    \/ \E n \in SnapNames, p \in SnapPortTriples :
            Register(n, "h1", p, RequiredFields) /\ Aliased({})
                /\ UNCHANGED snapRest
    \/ \E n \in SnapNames, id \in ServiceIds :
            Deregister(n, id)
                /\ Aliased(IF n \in KeySet(services) THEN {n} ELSE {})
                /\ UNCHANGED snapRest
    \/ \E n \in SnapNames, id \in ServiceIds, st \in {"healthy", "unhealthy"} :
            UpdateServiceHealth(n, id, st) /\ Aliased({})
                /\ UNCHANGED snapRest
    \/ ListServices /\ UNCHANGED snapRest

SpecSnapshot == Init /\ [][SnapshotNext]_vars

\* ---- the supervisor sweep next to the servicer's registry handlers
HealthNext ==
    \/ \E n \in Names, h \in HealthHosts, p \in HealthPortTriples :
            RegisterService(n, h, p) /\ UNCHANGED <<regGhost, cbVars, routerVars, busVars, queryVars, creditVars, hmVars, wfVars, snapVars>>
    \/ \E n \in Names, id \in ServiceIds : DeregisterService(n, id) /\ UNCHANGED <<regGhost, cbVars, routerVars, busVars, queryVars, creditVars, hmVars, wfVars, snapVars>>
    \/ \E n \in Names, s \in Statuses : ReportHealth(n, s) /\ UNCHANGED <<regGhost, cbVars, routerVars, busVars, queryVars, creditVars, hmVars, wfVars, snapVars>>
    \/ SweepStart /\ UNCHANGED <<regGhost, cbVars, routerVars, busVars, queryVars, creditVars, hmVars, wfVars, snapVars>>
    \/ \E o \in ProbeOutcomes : ProbeDone(o) /\ UNCHANGED <<regGhost, cbVars, routerVars, busVars, queryVars, creditVars, hmVars, wfVars, snapVars>>

SpecHealth == Init /\ [][HealthNext]_vars

\* ---- one tool's circuit breaker under concurrent execute calls
otherVars == <<storeVars, regVars, regGhost, healthVars, routerVars, busVars, queryVars, creditVars, hmVars, wfVars, snapVars>>

BreakerNext ==
    \/ ExecuteStart /\ UNCHANGED otherVars
    \/ ExecuteSuccess /\ UNCHANGED otherVars
    \/ ExecuteFailure /\ UNCHANGED otherVars
    \/ \E t \in Instants : Tick(t) /\ UNCHANGED otherVars

SpecBreaker == Init /\ [][BreakerNext]_vars

\* ---- the router: callers, workers and the instances they route to
routerRest == <<store_lock, ae_pc, ae_event, healthVars, cbVars, busVars, queryVars, creditVars, hmVars, wfVars, snapVars>>

RouterNext ==
    \/ \E n \in RouterTargets, p \in RouterPortTriples :
            Register(n, "h1", p, RequiredFields)
                /\ UNCHANGED <<events, history, next_event_id, routerRest, routerVars>>
    \/ \E c \in Callers, n \in Names : RouteAsync(c, n)
                /\ UNCHANGED <<events, history, next_event_id, routerRest, regVars, regGhost>>
    \/ \E c \in Callers : RoutePut(c)
                /\ UNCHANGED <<events, history, next_event_id, routerRest, regVars, regGhost>>
    \/ \E c \in Callers : RouteReturn(c)
                /\ UNCHANGED <<events, history, next_event_id, routerRest, regVars, regGhost>>
    \/ \E c \in Callers : RouteTimeout(c)
                /\ UNCHANGED <<events, history, next_event_id, routerRest, regVars, regGhost>>
    \/ \E w \in Workers, o \in RouteOutcomes, y \in BOOLEAN : WorkerRoute(w, o, y)
                /\ UNCHANGED <<routerRest, regVars, regGhost>>
    \/ \E w \in Workers : WorkerPublished(w) /\ UNCHANGED <<routerRest, regVars, regGhost>>

SpecRouter == Init /\ [][RouterNext]_vars

\* ---- the router under its scheduling: a worker loops on the queue as long
\* as the router runs, wait_for wakes its caller on the result or at the
\* deadline, and a blocked queue.put is woken when a slot is freed
WorkerStep(w) ==
    \/ \E o \in RouteOutcomes, y \in BOOLEAN : WorkerRoute(w, o, y)
                /\ UNCHANGED <<routerRest, regVars, regGhost>>
    \/ WorkerPublished(w) /\ UNCHANGED <<routerRest, regVars, regGhost>>

CallerWake(c) ==
    \/ RouteReturn(c)
            /\ UNCHANGED <<events, history, next_event_id, routerRest, regVars, regGhost>>
    \/ RouteTimeout(c)
            /\ UNCHANGED <<events, history, next_event_id, routerRest, regVars, regGhost>>

CallerPut(c) ==
    RoutePut(c)
        /\ UNCHANGED <<events, history, next_event_id, routerRest, regVars, regGhost>>

\* a step of a worker or of a caller inside route_async
RouterProgress ==
    \/ \E w \in Workers : WorkerStep(w)
    \/ \E c \in Callers : CallerWake(c)
    \/ \E c \in Callers : CallerPut(c)

\* the event loop runs a task that is ready
RouterFairness == WF_vars(RouterProgress)

SpecRouterFair == Init /\ [][RouterNext]_vars /\ RouterFairness

\* ---- the bus: add_event callers, subscribers and their consumers
busRest == <<regVars, regGhost, healthVars, cbVars, routerVars, queryVars, creditVars, hmVars, wfVars, snapVars>>

\* the steps of add_event
BusAddEvent(c) ==
    \/ \E in \in BusInputs :
            BusAddEventCall(c, in[1], in[2], in[3]) /\ UNCHANGED <<busVars, busRest>>
    \/ AddEventAcquire(c) /\ UNCHANGED <<busVars, busRest>>
    \/ AddEventAppend(c) /\ UNCHANGED <<busVars, busRest>>
    \/ PublishStart(c) /\ UNCHANGED busRest
    \/ PublishPut(c) /\ UNCHANGED busRest
    \/ PublishTimeout(c) /\ UNCHANGED busRest
    \/ PublishDone(c) /\ UNCHANGED busRest

AllOk == [h \in Handlers |-> "ok"]

\* subscribers and publishers, no handler registered
BusNext ==
    \/ \E chan \in SubChannels, k \in SubIds : Subscribe(chan, k)
            /\ UNCHANGED <<storeVars, busRest>>
    \/ \E chan \in SubChannels, k \in SubIds : Unsubscribe(chan, k)
            /\ UNCHANGED <<storeVars, busRest>>
    \/ \E q \in DOMAIN sub_queue : QueueGet(q) /\ UNCHANGED <<storeVars, busRest>>
    \/ \E c \in BusCallers : BusAddEvent(c)
    \/ \E c \in BusCallers : BusDispatch(c, AllOk) /\ UNCHANGED busRest

\* handlers, publishers and subscribers that never read their queues
DispatchNext ==
    \/ \E chan \in SubChannels, k \in SubIds : Subscribe(chan, k)
            /\ UNCHANGED <<storeVars, busRest>>
    \/ \E t \in HandlerTypes, h \in Handlers : RegisterHandler(t, h)
            /\ UNCHANGED <<storeVars, busRest>>
    \/ \E c \in BusCallers : BusAddEvent(c)
    \/ \E c \in BusCallers, o \in [Handlers -> HandlerOutcomes] : BusDispatch(c, o)
            /\ UNCHANGED busRest

SpecDispatch == Init /\ [][DispatchNext]_vars

\* ---- two tasks inside add_event at once, on one event loop
\* the channel a caller is publishing to, or about to
PublishingTo(c) == Head(ae_chans[c])

\* the task of caller c is not running: it has not been started or has
\* returned, it waits for a lock another task holds, it is inside the gather
\* of its handler tasks, or it is inside wait_for(queue.put(...))
AtSuspension(c) ==
    \/ ae_pc[c] = "idle"
    \/ ae_pc[c] = "acquire" /\ store_lock # "free"
    \/ ae_pc[c] = "publish" /\ event_handlers[ae_event[c].event_type] # <<>>
    \/ ae_pc[c] = "channel" /\ ch_lock[PublishingTo(c)] # "free"
    \/ ae_pc[c] = "putting" /\ pub_idx[c] <= Len(ch_subs[PublishingTo(c)])

\* the event loop runs one task until it suspends
OthersSuspended(c) == \A d \in Callers \ {c} : AtSuspension(d)

ConcurrentNext ==
    \/ \E chan \in SubChannels, k \in SubIds :
            /\ \A c \in Callers : AtSuspension(c)
            /\ Subscribe(chan, k)
            /\ UNCHANGED <<storeVars, busRest>>
    \/ \E t \in HandlerTypes :
            /\ \A c \in Callers : AtSuspension(c)
            /\ RegisterHandler(t, "h1")
            /\ UNCHANGED <<storeVars, busRest>>
    \/ \E q \in DOMAIN sub_queue :
            /\ \A c \in Callers : AtSuspension(c)
            /\ QueueGet(q)
            /\ UNCHANGED <<storeVars, busRest>>
    \/ \E c \in Callers : OthersSuspended(c) /\ BusAddEvent(c)
    \/ \E c \in Callers : OthersSuspended(c) /\ BusDispatch(c, AllOk)
            /\ UNCHANGED busRest

SpecConcurrent == Init /\ [][ConcurrentNext]_vars

\* ---- queries against a store that add_event fills
QueryNext ==
    \/ \E chan \in SubChannels, k \in SubIds : Subscribe(chan, k)
            /\ UNCHANGED <<storeVars, busRest>>
    \/ \E c \in BusCallers : BusAddEvent(c)
    \/ \E c \in BusCallers : BusDispatch(c, AllOk) /\ UNCHANGED busRest
    \/ \E t \in EventTypes \cup {None}, n \in BusNames \cup {None},
          wf \in WorkflowIds \cup {None}, limit \in 0..MaxLimit :
            GetEvents(t, n, wf, limit)
                /\ UNCHANGED <<storeVars, regVars, regGhost, healthVars, cbVars,
                               routerVars, busVars, creditVars, hmVars, wfVars, snapVars>>

SpecQuery == Init /\ [][QueryNext]_vars

\* ---- credit assignment with a value function
creditRest == <<regVars, regGhost, healthVars, cbVars, routerVars, busVars,
                queryVars, wfVars, snapVars>>

ShapleyNext ==
    \/ \E A \in SUBSET Agents \ {{}}, game \in Games : SetGame(A, game)
            /\ UNCHANGED <<storeVars, hmVars, creditRest>>
    \/ \E a \in Agents : Calculate(a) /\ UNCHANGED <<storeVars, hmVars, creditRest>>
    \/ \E a \in Agents : RecordContribution(a, "W1", "agent", TRUE, TRUE)
            /\ sh_game # NoGame
            /\ UNCHANGED <<hmVars, creditRest>>

SpecShapley == Init /\ [][ShapleyNext]_vars

\* ---- restart attempts over time
\* the steps of the clock: half a cooldown, a cooldown, the rest of an hour
ClockSteps == {30, 60, 3360}

\* The caller attempts a restart of W1 at every instant the clock stops at,
\* and may attempt it again at once; the workflow is started before the clock
\* first moves and receives at most MaxRestartContribs contributions.
RestartNext ==
    \/ \E d \in ClockSteps : ClockAdvance(d)
            /\ credit_last.op = "restart"
            /\ credit_last' = NoCredit
            /\ UNCHANGED <<storeVars, workflow_contributions, active_workflows,
                           es_metrics, sh_game, sh_phi, recorded, creditRest>>
    \/ TriggerRestart("W1", "manual") /\ UNCHANGED creditRest
    \/ StartWorkflow("W1", {"a"}) /\ advances = 0
            /\ UNCHANGED <<hmVars, creditRest>>
    \/ RecordContribution("a", "W1", "reasoning", TRUE, FALSE)
            /\ es_metrics["a"].total_contributions < MaxRestartContribs
            /\ workflow_contributions["W1"] = <<>>
            /\ active_workflows["W1"] # NoWorkflow
            /\ UNCHANGED <<hmVars, creditRest>>

SpecRestart == Init /\ [][RestartNext]_vars

\* ---- contributions with the default heuristic, restart and completion
\* the contributions the agents record: every action type but decision by a,
\* a decision and a failed reasoning step by b
Contributions ==
    {<<"a", t, TRUE>> : t \in ActionTypes \ {"decision"}}
        \cup {<<"b", "decision", TRUE>>, <<"b", "reasoning", FALSE>>}

\* the contributions recorded so far
TotalRecorded ==
    SumOver(Agents, [a \in Agents |-> es_metrics[a].total_contributions])

\* MaxContribs contributions are recorded in all; a workflow is completed
\* once after its start and once after a restart
ContribNext ==
    \/ StartWorkflow("W1", {"a", "b"}) /\ UNCHANGED <<hmVars, creditRest>>
    \/ \E c \in Contributions :
            RecordContribution(c[1], "W1", c[2], c[3], FALSE)
                /\ TotalRecorded < MaxContribs
                /\ UNCHANGED <<hmVars, creditRest>>
    \/ TriggerRestart("W1", "manual") /\ UNCHANGED creditRest
    \/ \E success \in BOOLEAN : CompleteWorkflow("W1", success)
            /\ active_workflows["W1"].state \in {"running", "restarted"}
            /\ UNCHANGED <<hmVars, creditRest>>

SpecContrib == Init /\ [][ContribNext]_vars

\* ---- workflow graphs and their execution
\* a graph is built, executed once, and an agent may report a contribution
\* to the store after the execution has ended
wfRest == <<regVars, regGhost, healthVars, cbVars, routerVars, busVars, queryVars,
            snapVars>>

WorkflowNext ==
    \/ \E n \in UserNodes : AddNode(n)
            /\ UNCHANGED <<storeVars, creditVars, hmVars, wfRest>>
    \/ \E i \in 1..Len(CandidateEdges) : AddEdge(i)
            /\ UNCHANGED <<storeVars, creditVars, hmVars, wfRest>>
    \/ \E out \in [g_nodes -> Outcomes], cond \in BOOLEAN, rev \in BOOLEAN :
            Execute("W1", out, cond, rev)
            /\ UNCHANGED <<hmVars, wfRest>>
    \/ RecordContribution("a", "W1", "agent", TRUE, FALSE)
            /\ ex_last.op = "execute"
            /\ ex_last.errors = {}
            /\ UNCHANGED <<hmVars, wfRest, wfVars, snapVars>>

SpecWorkflow == Init /\ [][WorkflowNext]_vars

\* ---- the fan-out and join workflow: its nodes and edges are added, the
\* edges in their order, and the graph built so far is executed; each agent
\* service returns or raises and the parallel branches end in either order
ScenarioOutcomes ==
    {out \in [g_nodes -> {"ok", "raise"}] : "N4" \in g_nodes => out["N4"] = "ok"}

ScenarioNext ==
    \/ \E n \in ScenarioNodes : AddNode(n)
            /\ UNCHANGED <<storeVars, creditVars, hmVars, wfRest>>
    \/ \E i \in 1..Len(ScenarioEdges) : AddEdgeOf(ScenarioEdges, i)
            /\ UNCHANGED <<storeVars, creditVars, hmVars, wfRest>>
    \/ \E out \in ScenarioOutcomes, rev \in BOOLEAN :
            Execute("W1", out, TRUE, rev)
            /\ UNCHANGED <<hmVars, wfRest>>

SpecScenario == Init /\ [][ScenarioNext]_vars

\* ---- contributions reported to the HealthManager and its periodic analysis
\* the reports of the callers: a reports influence 1.0, b reports 0 or 0.1,
\* c reports 0.1
Reports == {<<"a", Unit>>, <<"b", 0>>, <<"b", Unit \div 10>>, <<"c", Unit \div 10>>}
\* the workflows a caller registers: W1 with three agents, W2 with one
WorkflowAgents == [W1 |-> <<"a", "b", "c">>, W2 |-> <<"b">>]

\* the contributions reported so far
TotalReported ==
    SumSeq([i \in 1..Len(hm_metrics) |-> hm_metrics[i].contribution_count])

\* contributions are reported against W1 only, MaxContribs of them
HealthTickNext ==
    \/ \E wf \in Workflows : RegisterWorkflow(wf, WorkflowAgents[wf])
            /\ UNCHANGED <<storeVars, creditVars, creditRest>>
    \/ \E r \in Reports :
            RecordAgentContribution(r[1], "W1", r[2], TRUE)
                /\ TotalReported < MaxContribs
                /\ UNCHANGED creditRest
    \/ HealthTick /\ UNCHANGED creditRest

SpecCredit == Init /\ [][HealthTickNext]_vars

SpecBus == Init /\ [][BusNext]_vars

Next == StoreNext \/ RegistryNext \/ HealthNext \/ BreakerNext \/ RouterNext \/ BusNext \/ DispatchNext
            \/ QueryNext \/ ShapleyNext \/ RestartNext \/ HealthTickNext
            \/ ContribNext \/ WorkflowNext \/ ScenarioNext \/ SnapshotNext
            \/ ConcurrentNext
Spec == Init /\ [][Next]_vars

\* =========================================================================
\* Claims
\* =========================================================================

C1_Ring ==
    /\ Len(events) = (IF Len(history) < max_events THEN Len(history) ELSE max_events)
    /\ events = LastN(history, max_events)

C1_Evict ==
    \A c \in Callers :
        (ae_pc[c] = "locked" /\ ae_pc'[c] = "publish" /\ Len(events) = max_events)
            => /\ Len(events') = max_events
               /\ events' = Append(Tail(events), ae_event[c])

\* C1: after L appends, in any interleaving of the callers, the store holds
\* exactly min(L, max_events) events and they are the most recently appended
\* ones in append order; an append onto a full store evicts exactly the
\* oldest event.
C1_EventRing == []C1_Ring /\ [][C1_Evict]_vars

\* witness: the ring is full, events have been evicted, and the two callers
\* appended in the opposite order of their calls
C1_Witness ==
    /\ Len(history) > max_events
    /\ Len(events) = max_events
    /\ \E i \in 1..(Len(history) - 1) :
            history[i].event_id > history[i + 1].event_id

\* number of places of list_all() that hold the instance id
Occurrences(svcs, id) ==
    Cardinality({p \in (1..Len(svcs)) \X (1..MaxIds) :
                    /\ p[2] <= Len(svcs[p[1]].list)
                    /\ svcs[p[1]].list[p[2]] = id})

\* C2: get_service returns none or an instance that is registered under the
\* name and healthy at the call; it returns none exactly when the name has
\* no healthy instance.
C2_GetHealthyOnly ==
    last_op.op = "get" =>
        /\ (last_op.result = None) <=> (HealthyIds(services, inst, last_op.name) = {})
        /\ last_op.result # None =>
              /\ last_op.result \in SeqRange(GetList(services, last_op.name))
              /\ inst[last_op.result].status = "healthy"

\* witness: get_service skipped an instance that is not healthy and returned
\* a later, healthy one
C2_Witness ==
    /\ last_op.op = "get"
    /\ last_op.result # None
    /\ GetList(services, last_op.name)[1] # last_op.result
    /\ inst[GetList(services, last_op.name)[1]].status = "unhealthy"

\* C3: while every register has a valid manifest and no port collision on
\* the same host with a registered instance, every register succeeds and
\* list_all() holds each registered, not deregistered instance exactly once.
C3_RegisterSucceeds ==
    seq_clean =>
        /\ last_op.op = "register" => last_op.ok
        /\ \A id \in live_ids : Occurrences(services, id) = 1

\* C4: a register call that fails leaves list_all(), its set of service
\* names included, as it was before the call.
C4_FailedRegisterNoChange ==
    (last_op.op = "register" /\ ~last_op.ok)
        => ListAll(services, inst) = last_op.pre

\* C5: a successful register(x) followed by deregister(x.name, x.service_id)
\* leaves list_all() equal to its value before the register.
C5_RegisterDeregisterRestores ==
    (last_op.op = "deregister" /\ last_op.after_register)
        => ListAll(services, inst) = last_op.reg_pre

\* C6: with k >= 2 healthy instances of a service and no registry mutation
\* in between, k consecutive get_service calls return k distinct instances.
C6_RoundRobin ==
    LET k == Cardinality(HealthyIds(services, inst, last_op.name))
    IN  (last_op.op = "get" /\ k >= 2 /\ Len(get_run) >= k)
            => Cardinality(SeqRange(LastN(get_run, k))) = k

\* ---- health_changed events of the history
IsHealthChanged(e, id) == e.event_type = "health_changed" /\ e.service_id = id

\* the status the chain of instance id had reached before history[i]
ChainStatusBefore(i, id) ==
    LET earlier == {j \in 1..(i - 1) : IsHealthChanged(history[j], id)}
    IN  IF earlier = {} THEN RegisteredStatus
        ELSE history[CHOOSE j \in earlier : \A m \in earlier : m <= j].new_status

C7_Chain ==
    \A i \in 1..Len(history) :
        history[i].event_type = "health_changed" =>
            /\ history[i].old_status # history[i].new_status
            /\ history[i].old_status = ChainStatusBefore(i, history[i].service_id)

\* a step that completes a probe
ProbeStep == last_probe'.seq # last_probe.seq

HealthEventOf(id, old, new) ==
    MkEvent(next_event_id, "health_changed", inst[id].name, id, old, new)

C7_Flap ==
    ProbeStep =>
        LET id == last_probe'.id
            new == ProbeStatus(last_probe'.outcome)
            registered == id \in AllIds(services)
        IN  /\ AllIds(services') = AllIds(services)
            /\ (registered /\ inst[id].status = new) => history' = history
            /\ (registered /\ inst[id].status = "healthy" /\ new = "unhealthy") =>
                  history' = Append(history, HealthEventOf(id, "healthy", "unhealthy"))
            /\ (registered /\ inst[id].status = "unhealthy" /\ new = "healthy") =>
                  history' = Append(history, HealthEventOf(id, "unhealthy", "healthy"))

\* C7: the health_changed events of an instance form a chain (old_status #
\* new_status, old_status = the previous event's new_status or the registered
\* status); a probe with the outcome of the previous one emits nothing, and
\* fail then ok on a healthy instance emits healthy->unhealthy then
\* unhealthy->healthy without changing the registered instances.
C7_HealthChangedChain == []C7_Chain /\ [][C7_Flap]_vars

\* witness: one instance went starting -> healthy -> unhealthy -> healthy
C7_Witness ==
    \E id \in ServiceIds :
        \E i, j, k \in 1..Len(history) :
            /\ i < j /\ j < k
            /\ IsHealthChanged(history[i], id) /\ history[i].new_status = "healthy"
            /\ IsHealthChanged(history[j], id) /\ history[j].new_status = "unhealthy"
            /\ IsHealthChanged(history[k], id) /\ history[k].new_status = "healthy"

\* the status the registry holds for id, None when id is not registered
RegistryStatus(svcs, objs, id) ==
    IF id \in AllIds(svcs) THEN objs[id].status ELSE None

\* C8: a health_changed event is appended exactly when a probe changes the
\* instance's status in the registry, and it carries the registry status
\* before and after that update.
C8_EventIffRegistryChange ==
    [][ProbeStep =>
          LET id == last_probe'.id
              before == RegistryStatus(services, inst, id)
              after == RegistryStatus(services', inst', id)
          IN  /\ (history' # history) <=> (before # after)
              /\ history' # history =>
                    /\ history'[Len(history')].old_status = before
                    /\ history'[Len(history')].new_status = after]_vars

\* C9: closed: a failure increments the count, a success resets it, and the
\* circuit opens exactly when the count reaches failure_threshold; open: a
\* request is rejected while less than timeout has elapsed since the circuit
\* opened, and admitted, the state becoming half_open, for every elapsed
\* time of at least timeout.
C9_ClosedAndOpen ==
    /\ (cb_last.op = "record_failure" /\ cb_last.state = CLOSED) =>
          /\ failure_count = cb_last.failure_count + 1
          /\ (cb_state = OPEN) <=> (failure_count = failure_threshold)
          /\ cb_state \in {CLOSED, OPEN}
    /\ (cb_last.op = "record_success" /\ cb_last.state = CLOSED) =>
          /\ failure_count = 0
          /\ cb_state = CLOSED
    /\ (cb_last.op = "can_execute" /\ cb_last.state = OPEN
            /\ cb_last.since_opened < timeout) =>
          /\ ~cb_last.allowed
          /\ cb_state = OPEN
    /\ (cb_last.op = "can_execute" /\ cb_last.state = OPEN
            /\ cb_last.since_opened >= timeout) =>
          /\ cb_last.allowed
          /\ cb_state = HALF_OPEN

\* C10: half_open: the circuit returns to closed only after
\* success_threshold successes recorded in half_open, and any failure
\* recorded in half_open moves it to open.
C10_HalfOpen ==
    /\ (cb_last.op = "record_success" /\ cb_last.state = HALF_OPEN
            /\ cb_state = CLOSED) =>
          half_open_successes >= success_threshold
    /\ (cb_last.state = HALF_OPEN /\ cb_state = CLOSED) =>
          cb_last.op = "record_success"
    /\ (cb_last.op = "record_failure" /\ cb_last.state = HALF_OPEN) =>
          cb_state = OPEN

\* C11: an open circuit rejects requests before timeout has elapsed; once a
\* request has been admitted out of open (the probe), every further request
\* is rejected until a verdict has been recorded.
C11_SingleProbe ==
    /\ (cb_last.op = "can_execute" /\ cb_last.state = OPEN
            /\ cb_last.since_opened < timeout) => ~cb_last.allowed
    /\ (cb_last.op = "can_execute" /\ cb_last.probe_pending) => ~cb_last.allowed

\* the request is waiting in the queue or a worker is routing it
Pending(id) ==
    \/ \E i \in 1..Len(queue) : queue[i] = id
    \/ \E w \in Workers : w_pc[w] # "idle" /\ w_req[w] = id

\* C12: a request is retried at most max_retries times, and its caller has
\* received a failure result only when no retry of the request is queued or
\* running.
C12_FailureAfterRetries ==
    \A id \in DOMAIN request :
        /\ request[id].retry_count <= max_retries
        /\ delivered[id] = "fail" => ~Pending(id)

\* C13: once route_async has returned the deadline error for a request, no
\* worker routes the request, updates instance metrics for it or appends a
\* route_called event for it.
C13_NoEffectAfterDeadline ==
    [][\A id \in DOMAIN delivered :
          delivered[id] = "timeout" => rq_log'[id] = rq_log[id]]_vars

\* C14: a submission that finds the queue at its capacity is rejected: it is
\* not enqueued and its caller is not left blocked in the submission.
C14_QueueFullRejected ==
    \A c \in Callers :
        /\ rt_pc[c] # "put"
        /\ rt_pc[c] # "idle" => Len(queue) <= max_size

\* C16: every route that completes with success or with final failure (no
\* instance, or an error after the last retry) has appended exactly one
\* route_called event, and every route_called event carries source, target,
\* method, success and metadata {instance, latency_ms, strategy}.
C16_RouteCalledOnCompletion ==
    /\ last_route.result \in {"ok", "no_instance", "error_final"} => last_route.event
    /\ \A id \in DOMAIN rq_log : rq_log[id].events <= 1
    /\ \A i \in 1..Len(history) :
          history[i].event_type = "route_called" =>
              /\ history[i].source_service = RouterSource
              /\ history[i].target_service \in Names
              /\ history[i].method = RouterMethod
              /\ history[i].success \in BOOLEAN
              /\ DOMAIN history[i].metadata = {"instance", "latency_ms", "strategy"}

C15_Returned ==
    \A id \in DOMAIN delivered :
        /\ delivered[id] # None =>
              /\ id \notin response_futures
              /\ id \notin in_flight
        /\ delivered[id] \in {"ok", "fail"} => future[id] = delivered[id]
        /\ delivered[id] = "timeout" => future[id] = "cancelled"

C15_Once ==
    \A id \in DOMAIN delivered :
        /\ future[id] # "pending" => future'[id] = future[id]
        /\ delivered[id] # None => delivered'[id] = delivered[id]

IsLast(l, x) == l # <<>> /\ l[Len(l)] = x
PutCount(l, x) == Cardinality({i \in 1..Len(l) : l[i] = x})

\* the step in which the publish of caller c returns
PublishReturns(c) ==
    /\ ae_pc[c] = "putting"
    /\ pub_idx[c] > Len(ch_subs[Head(ae_chans[c])])
    /\ pub_idx'[c] = 0

C18_SubscribeIdempotent ==
    /\ \A chan \in BusChannels, k \in SubIds :
          sub_ret[chan][k] # <<>> =>
              /\ k \in SubscriberIds(ch_subs[chan])
              /\ \A i \in 1..Len(sub_ret[chan][k]) :
                    sub_ret[chan][k][i].q = QueueOf(ch_subs[chan], k)
    /\ \A chan \in BusChannels :
          \A i, j \in 1..Len(ch_subs[chan]) :
              i # j => /\ ch_subs[chan][i].id # ch_subs[chan][j].id
                       /\ ch_subs[chan][i].q # ch_subs[chan][j].q
    /\ \A q \in DOMAIN put_log :
          \A x \in SeqRange(put_log[q]) : PutCount(put_log[q], x) = 1

\* k subscribed twice to a channel and an event was published to the channel
\* after the second call
C18_Witness ==
    \E chan \in BusChannels, k \in SubIds :
        /\ Len(sub_ret[chan][k]) = 2
        /\ Len(put_log[sub_ret[chan][k][2].q]) > sub_ret[chan][k][2].puts

\* -------------------------------------------------------------------------
\* dispatch
\* -------------------------------------------------------------------------
StoredEvent(id) == history[CHOOSE i \in 1..Len(history) : history[i].event_id = id]

Min(a, b) == IF a <= b THEN a ELSE b

\* C20: for every store content, filter and limit >= 0, get_events returns
\* exactly the last min(limit, m) of the m stored events that match the
\* filter, in insertion order, never more than limit events.
C20_LastLimit ==
    ge_last.called =>
        LET matching == Filter(ge_last.read, ge_last.event_type,
                               ge_last.service_name, ge_last.workflow_id)
            m == Len(matching)
            n == Min(ge_last.limit, m)
        IN  /\ ge_last.result = SubSeq(matching, m - n + 1, m)
            /\ Len(ge_last.result) <= ge_last.limit

\* -------------------------------------------------------------------------
\* Shapley values
\* -------------------------------------------------------------------------
InfluenceRecorded(wf) ==
    SumSeq([i \in 1..Len(workflow_contributions[wf]) |->
               workflow_contributions[wf][i].influence_score])

\* every agent of the game has recorded one contribution with the value
\* function, and nobody else has
AllAssigned(wf) ==
    /\ sh_game # NoGame
    /\ ContributorsOf(workflow_contributions[wf]) = sh_game.agents
    /\ Len(workflow_contributions[wf]) = Cardinality(sh_game.agents)

\* C24: for a workflow with agent set A and a value function v, the Shapley
\* values the engine assigns to the agents of A sum to v(A) - v(empty set).
C24_Efficiency ==
    AllAssigned("W1") =>
        InfluenceRecorded("W1")
            = (ValueOf(sh_game, sh_game.agents) - ValueOf(sh_game, {})) * Unit

\* the computed values, 0 where none was computed
PhiOf == [a \in Agents |-> IF sh_phi[a] = <<>> THEN 0 ELSE sh_phi[a][1]]

\* the game of three agents with v(S) = |S|
CountingGame ==
    /\ sh_game.agents = Agents
    /\ \A a \in Agents : sh_game.w[a] = 1
    /\ sh_game.bonus = 0

\* C30: for three agents and v(S) = |S| the engine computes the Shapley
\* value 1/3 for each agent, and the three values total 1.
C30_ThirdEach ==
    CountingGame =>
        /\ \A a \in Agents : sh_phi[a] # <<>> => 3 * sh_phi[a][1] = Unit
        /\ (\A a \in Agents : sh_phi[a] # <<>>) => SumOver(Agents, PhiOf) = Unit

\* C30 (amended): for three agents and v(S) = |S| the engine computes the
\* same Shapley value 1 for each agent, and the three values total
\* 3 = v(A) - v(empty set).
C30_OneEach ==
    CountingGame =>
        /\ \A a \in Agents : sh_phi[a] # <<>> => sh_phi[a][1] = Unit
        /\ (\A a \in Agents : sh_phi[a] # <<>>) =>
              SumOver(Agents, PhiOf)
                  = (ValueOf(sh_game, Agents) - ValueOf(sh_game, {})) * Unit

\* the three values of the counting game have been computed
C30_Witness ==
    /\ CountingGame
    /\ \A a \in Agents : sh_phi[a] # <<>>

\* -------------------------------------------------------------------------
\* the restart rate limit
\* -------------------------------------------------------------------------
\* the deliberation_restarted events of a workflow, oldest first
RestartEvents(wf) ==
    SelectSeq(history, LAMBDA e : e.event_type = "deliberation_restarted"
                                  /\ e.workflow_id = wf)

\* the restarts granted to wf in the 3600 seconds that start with restart i
GrantsInWindow(wf, i) ==
    {j \in 1..Len(restart_history[wf]) :
        /\ restart_history[wf][i] <= restart_history[wf][j]
        /\ restart_history[wf][j] < restart_history[wf][i] + 3600}

RateLimited(wf) ==
    /\ \A i \in 1..Len(restart_history[wf]) : Cardinality(GrantsInWindow(wf, i)) <= 5
    /\ \A i, j \in 1..Len(restart_history[wf]) :
          i < j => restart_history[wf][j] - restart_history[wf][i] >= 60

\* C21: at most 5 restarts of a workflow are granted within any 3600-second
\* window and two granted restarts of a workflow are at least 60 seconds
\* apart; each granted restart emits one deliberation_restarted event, and a
\* denied attempt emits none and changes neither the contributions, nor the
\* restart count, nor the state of the workflow.
C21_RateLimit ==
    [][\A wf \in Workflows :
          /\ RateLimited(wf)'
          /\ Len(RestartEvents(wf))' = Len(restart_history[wf])'
          /\ (credit_last'.op = "restart" /\ credit_last'.workflow_id = wf
                /\ credit_last'.attempts[wf] = "denied")
             => UNCHANGED <<history, events, workflow_contributions,
                            active_workflows, restart_history>>]_vars

\* the sixth attempt of an hour is denied, a cooldown after the fifth grant,
\* on a running workflow that has contributions
C21_Witness ==
    /\ credit_last.op = "restart"
    /\ credit_last.workflow_id = "W1"
    /\ credit_last.attempts["W1"] = "denied"
    /\ Len(RecentRestarts(restart_history["W1"], utcnow)) = 5
    /\ utcnow - MaxOf(restart_history["W1"]) >= 60
    /\ workflow_contributions["W1"] # <<>>
    /\ active_workflows["W1"].restart_count >= 1

\* -------------------------------------------------------------------------
\* the restart arbitration of the periodic analysis
\* -------------------------------------------------------------------------
\* agent a accounts for more than 70% of the influence recorded against wf,
\* in the store's contributions and in the workflow's contribution balance
Dominates(wf, a) ==
    /\ \E i \in 1..Len(workflow_health[wf].agents) : workflow_health[wf].agents[i] = a
    /\ 10 * ReportedInfluence(workflow_contributions[wf], a)
           > 7 * InfluenceRecorded(wf)
    /\ 10 * workflow_health[wf].contribution_balance[a]
           > 7 * SumOver(Agents, workflow_health[wf].contribution_balance)

\* C22: at a tick of the periodic analysis, a tracked workflow in which one
\* agent accounts for more than 70% of the cumulative influence, and which
\* the rate limit allows to restart, is restarted for dominance: the agent is
\* its dominant_agent, one deliberation_restarted event with the dominance
\* reason is emitted, its contributions are cleared and its restart_count
\* increases by 1.
C22_DominanceRestart ==
    [][\A wf \in Workflows, a \in Agents :
          (/\ ticks' = ticks + 1
           /\ workflow_health[wf].tracked
           /\ Dominates(wf, a)
           /\ CanRestart(restart_history[wf], utcnow))
          => /\ workflow_health'[wf].dominant_agent = a
             /\ credit_last'.attempts[wf] = "granted"
             /\ credit_last'.reasons[wf] = [kind |-> "dominating", agent |-> a]
             /\ Len(RestartEvents(wf))' = Len(RestartEvents(wf)) + 1
             /\ workflow_contributions'[wf] = <<>>
             /\ workflow_health'[wf].restart_count
                    = workflow_health[wf].restart_count + 1]_vars

\* no contribution was ever recorded against wf
NoContributionEver(wf) ==
    /\ workflow_contributions[wf] = <<>>
    /\ RestartEvents(wf) = <<>>

\* C23: for a tracked workflow against which no contribution has been
\* recorded, a tick of the periodic analysis classifies every participating
\* agent as starting and does not restart the workflow.
C23_NoContributionNoRestart ==
    [][\A wf \in Workflows :
          (/\ ticks' = ticks + 1
           /\ workflow_health[wf].tracked
           /\ NoContributionEver(wf))
          => /\ credit_last'.attempts[wf] # "granted"
             /\ RestartEvents(wf)' = <<>>
             /\ \A i \in 1..Len(workflow_health[wf].agents) :
                   AnalyzeAgent(agent_history', workflow_health[wf].agents[i])
                       = "starting"]_vars

\* -------------------------------------------------------------------------
\* the default heuristic and the final credits
\* -------------------------------------------------------------------------
\* the weight of a contribution in tenths: reasoning 1.2, decision 1.5,
\* verification 1.0, delegation 0.8, anything else 1.0, and 0 for a failure
HeuristicWeight(c) ==
    IF ~c.success THEN 0
    ELSE IF c.action_type = "reasoning" THEN 12
    ELSE IF c.action_type = "decision" THEN 15
    ELSE IF c.action_type = "delegation" THEN 8
    ELSE 10

\* the weights of the contributions of l by the agents of A, in tenths
WeightSum(l, A) ==
    SumSeq([i \in 1..Len(l) |-> IF l[i].agent_id \in A THEN HeuristicWeight(l[i]) ELSE 0])

\* C25: with no value function each recorded contribution's influence is
\* (1 if success else 0) times the weight of its action type, and the final
\* credits of a workflow, per agent and in total, are the sums of these
\* weights over the contributions recorded against it.
C25_DefaultHeuristic ==
    \A wf \in Workflows :
        /\ \A i \in 1..Len(workflow_contributions[wf]) :
              10 * workflow_contributions[wf][i].influence_score
                  = HeuristicWeight(workflow_contributions[wf][i]) * Unit
        /\ (credit_last.op = "complete" /\ credit_last.workflow_id = wf) =>
              /\ \A a \in Agents :
                    10 * credit_last.final_credits[a]
                        = WeightSum(recorded[wf], {a}) * Unit
              /\ 10 * SumOver(Agents, credit_last.final_credits)
                        = WeightSum(recorded[wf], Agents) * Unit
              /\ credit_last.total_contributions = Len(recorded[wf])

\* a workflow completes with a weighted contribution of each of two agents
\* and a failed one
C25_Witness ==
    /\ credit_last.op = "complete"
    /\ credit_last.workflow_id = "W1"
    /\ credit_last.final_credits["a"] = (12 * Unit) \div 10
    /\ credit_last.final_credits["b"] = (15 * Unit) \div 10
    /\ credit_last.total_contributions = 3

\* -------------------------------------------------------------------------
\* workflow graphs: validation, execution, fallback, cancellation
\* -------------------------------------------------------------------------
RECURSIVE ReachFrom(_, _)
\* the nodes that the edges lead to from the nodes of S, S included
ReachFrom(S, edges) ==
    LET more == S \cup {edges[i].target : i \in {j \in 1..Len(edges) : edges[j].source \in S}}
    IN  IF more = S THEN S ELSE ReachFrom(more, edges)

\* the graph has a cycle, a node other than the end node without an outgoing
\* edge, an edge from or to something that is not a node, or no path from
\* the start node to the end node
Defective(nodes, edges) ==
    \/ \E i \in 1..Len(edges) : edges[i].source \in ReachFrom({edges[i].target}, edges)
    \/ \E n \in NodeIds(nodes) \ {END} : \A i \in 1..Len(edges) : edges[i].source # n
    \/ \E i \in 1..Len(edges) : {edges[i].source, edges[i].target} \ NodeIds(nodes) # {}
    \/ END \notin ReachFrom({START}, edges)

\* C26: a graph that contains a cycle, has a node other than the end node
\* with no outgoing edge, has an edge whose source or target is not a node,
\* or has no path from __start__ to __end__ is rejected: validate returns
\* errors and execute returns success = false, having executed no node and
\* emitted no event.
C26_DefectiveRejected ==
    (ex_last.op = "execute" /\ Defective(g_nodes, g_edges)) =>
        /\ ex_last.errors # {}
        /\ ~ex_last.success
        /\ ex_last.run = NoExec
        /\ history = <<>>
        /\ active_workflows["W1"] = NoWorkflow
        /\ workflow_contributions["W1"] = <<>>

\* a graph whose only defect is a cycle through a fallback edge was rejected
C26_Witness ==
    /\ ex_last.op = "execute"
    /\ ex_last.errors = {"cycle"}
    /\ g_nodes = UserNodes
    /\ ~ex_last.success

\* C27: an execution of a validated graph that returns success has visited
\* __end__, and its completed_nodes are reachable from __start__.
C27_SuccessVisitsEnd ==
    (ex_last.op = "execute" /\ ex_last.success) =>
        /\ END \in ex_last.run.completed
        /\ ex_last.run.completed \subseteq ReachFrom({START}, g_edges)

\* the edges the execution followed out of node n by way of via
FollowedFrom(n, via) ==
    {i \in 1..Len(ex_last.run.log) :
        ex_last.run.log[i].from = n /\ ex_last.run.log[i].via \in via}

\* C28: in an execution that is not cancelled, a node that raises and has a
\* fallback edge is followed by its fallback target and by none of its
\* sequential, conditional or parallel successors; a node that raises and
\* has no fallback edge makes the workflow end failed; the fallback edge of a
\* node that succeeded is not followed.
C28_FallbackDispatch ==
    (/\ ex_last.op = "execute"
     /\ ex_last.errors = {}
     /\ \A n \in g_nodes : ex_last.out[n] # "cancel") =>
        \A i \in 1..Len(ex_last.run.executed) :
            LET n == ex_last.run.executed[i]
                fb == GetFallbackTarget(g_edges, n)
            IN  /\ (ex_last.out[n] = "raise" /\ fb # None) =>
                      /\ FollowedFrom(n, {"fallback"}) # {}
                      /\ FollowedFrom(n, {"next", "parallel"}) = {}
                /\ (ex_last.out[n] = "raise" /\ fb = None) =>
                      /\ ~ex_last.success
                      /\ active_workflows["W1"].state = "failed"
                /\ ex_last.out[n] = "ok" => FollowedFrom(n, {"fallback"}) = {}

\* the agent_contribution events of a workflow
ContributionEvents(wf) ==
    SelectSeq(history, LAMBDA e : e.event_type = "agent_contribution"
                                  /\ e.workflow_id = wf)

\* C29: a cancelled execution leaves its workflow in state failed, and a
\* record_contribution for a workflow that is cancelled or failed adds no
\* contribution and appends no agent_contribution event.
C29_CancelledIsFailed ==
    [][/\ (ex_last'.op = "execute" /\ ex_last'.run.status = "cancel")
              => active_workflows'["W1"].state = "failed"
       /\ (active_workflows["W1"].state = "failed" \/ ex_last.run.status = "cancel")
              => /\ workflow_contributions'["W1"] = workflow_contributions["W1"]
                 /\ ContributionEvents("W1")' = ContributionEvents("W1")]_vars

\* -------------------------------------------------------------------------
\* the fan-out and join workflow
\* -------------------------------------------------------------------------
\* the graph start -> N1 -> {parallel: N2, N3} -> N4 -> end was executed and
\* every service returned
ScenarioERan ==
    /\ ex_last.op = "execute"
    /\ g_nodes = ScenarioNodes
    /\ g_edges = ScenarioEdges
    /\ \A n \in g_nodes : ex_last.out[n] = "ok"

\* C31: when every service of the fan-out and join workflow returns, in
\* either order of the parallel branches the execution succeeds, the
\* workflow is completed, completed_nodes are all six nodes, global_state
\* has the keys x, y, z and parallel_results, and the output of N4 has the
\* items of N2 and of N3.
C31_ScenarioE ==
    ScenarioERan =>
        /\ ex_last.success
        /\ active_workflows["W1"].state = "completed"
        /\ ex_last.run.completed = NodeIds(ScenarioNodes)
        /\ {"x", "y", "z", "parallel_results"} \subseteq ex_last.run.global_state
        /\ {<<"y", 2>>, <<"z", 3>>} \subseteq ex_last.run.node_outputs["N4"].items

\* -------------------------------------------------------------------------
\* edge dispatch
\* -------------------------------------------------------------------------
\* the edges out of n in the order get_next_nodes examines them
Examined(n) == SortedByPriority(Adjacency(g_edges, n), MaxPriority)

\* the nodes n that were executed without an exception and whose first edge
\* examined is sequential
SequentialFirst ==
    {n \in ex_last.run.completed \ {END} :
        /\ n # START => ex_last.out[n] = "ok"
        /\ Examined(n) # <<>>
        /\ Examined(n)[1].edge_type = "sequential"}

\* C32: after a node whose first edge examined (descending priority, ties in
\* insertion order) is sequential, the execution goes on with the target of
\* that edge and with no other successor of the node.
C32_SequentialFirst ==
    ex_last.op = "execute" =>
        \A n \in SequentialFirst :
            \A i \in 1..Len(ex_last.run.log) :
                ex_last.run.log[i].from = n =>
                    /\ ex_last.run.log[i].to = Examined(n)[1].target
                    /\ ex_last.run.log[i].via = "next"

\* how many times x occurs in seq
TimesIn(seq, x) == Cardinality({i \in 1..Len(seq) : seq[i] = x})

\* C38: in one execution _execute_node runs at most once for every node, and
\* __end__ is entered at most once.
C38_ExecutedOnce ==
    ex_last.op = "execute" =>
        /\ \A n \in g_nodes : TimesIn(ex_last.run.executed, n) <= 1
        /\ TimesIn(ex_last.run.visited, END) <= 1

\* -------------------------------------------------------------------------
\* the value list_services returns
\* -------------------------------------------------------------------------
\* C33: the dict a list_services call returned keeps showing the instance
\* lists and the instance statuses it showed when it was returned, whatever
\* register, deregister and update_service_health calls follow.
C33_PointInTime ==
    ls_ret.taken => SeenThrough(ls_ret, inst, ls_frozen) = ls_at

\* -------------------------------------------------------------------------
\* the probes of one sweep
\* -------------------------------------------------------------------------
\* the place in the sweep's lists of the instance whose turn comes after the
\* probe in progress, <<0, 0>> when there is none
AwaitingTurn ==
    Advance(sweep_snapshot, services, sweep_pos[1], sweep_pos[2] + 1)

\* C34: while the probe of an instance is in progress, no other instance of
\* the sweep is still waiting for its probe to start.
C34_ProbesConcurrent ==
    sweep_pc = "probing" => AwaitingTurn = <<0, 0>>

\* the events a step appends to the store
Appended == [i \in 1..(Len(history') - Len(history)) |-> history'[Len(history) + i]]

\* C37: a health_changed event is appended only for an instance that is in
\* the registry, and the step that ends a probe adds no instance to the
\* registry.
C37_NoEventForRemoved ==
    [][/\ \A i \in 1..Len(Appended) :
              Appended[i].event_type = "health_changed" =>
                  Appended[i].service_id \in AllIds(services)
       /\ last_probe' # last_probe => AllIds(services') \subseteq AllIds(services)]_vars

\* held(c): the locks the task of caller c holds
LocksHeld(c) ==
    (IF store_lock = c THEN {"store"} ELSE {})
        \cup {chan \in BusChannels : ch_lock[chan] = c}

\* the task that holds the lock caller c waits for, None when c waits for none
WaitsFor(c) ==
    IF ae_pc[c] = "acquire" /\ store_lock # "free" THEN store_lock
    ELSE IF ae_pc[c] = "channel" /\ ch_lock[PublishingTo(c)] # "free"
         THEN ch_lock[PublishingTo(c)]
         ELSE None

AppendedAt(id) == CHOOSE i \in 1..Len(history) : history[i].event_id = id

\* C36: under concurrent add_event calls every subscriber of the global
\* channel is handed the events in the order they were appended to the store
C36_GlobalInAppendOrder ==
    \A i \in 1..Len(ch_subs[GLOBAL]) :
        LET got == put_log[ch_subs[GLOBAL][i].q]
        IN  \A a, b \in 1..Len(got) :
                a < b => AppendedAt(got[a]) < AppendedAt(got[b])

\* C39: a step taken with a workflow in state completed or failed leaves its
\* state and its restart_count as they are, and a step that restarts a
\* workflow finds it in state running
C39_TerminalStates ==
    [][\A wf \in Workflows :
          /\ active_workflows[wf].state \in {"completed", "failed"}
                => /\ active_workflows'[wf].state = active_workflows[wf].state
                   /\ active_workflows'[wf].restart_count
                          = active_workflows[wf].restart_count
          /\ active_workflows'[wf].restart_count # active_workflows[wf].restart_count
                => active_workflows[wf].state = "running"]_vars

\* the workers inside the try block of _route_request against an instance
AttemptsInProgress(key) ==
    Cardinality({w \in Workers : w_pc[w] = "publishing" /\ w_inst[w] = key})

\* C40: for every instance the load balancer's active_connections is the
\* number of route attempts in progress against it, so never negative and 0
\* when there is none
C40_ActiveConnections ==
    \A key \in DOMAIN instance_metrics :
        /\ instance_metrics[key].active_connections = AttemptsInProgress(key)
        /\ instance_metrics[key].active_connections >= 0

====
